---- MODULE Spec2Model ----
(***************************************************************************)
(* A model of the badezimmer discovery engine (badezimmer/mdns.py) and of  *)
(* the service descriptor (badezimmer/info.py).                            *)
(*                                                                         *)
(* Strings that the code splits are sequences of tokens in which "." and   *)
(* "-" are tokens of their own, so that str.split is computed, not assumed.*)
(* Time is the monotonic clock in milliseconds.                            *)
(***************************************************************************)
EXTENDS Integers, Sequences, FiniteSets, TLC

VARIABLES
    now,                  \* time.monotonic() * 1000
    tiebreaking_attempts, \* engine -> BadezimmerMDNS.tiebreaking_attempts
    sock,                 \* engine -> whether self.sock is not None
    registered_services,  \* engine -> (service type -> list of owned domains)
    ptr_records,          \* engine -> (service type -> (domain -> EntryRecord))
    non_ptr_records,      \* engine -> (domain -> (field -> list of EntryRecord))
    listeners,            \* engine -> list of listeners
    call,                 \* engine -> the host's register_service call
    inbox,                \* engine -> datagrams on their way to its socket
    renovate_at,          \* engine -> when its _renovate_loop wakes up
    last,                 \* the step just taken
    sent,                 \* the packets the step just taken sent
    notes,                \* the listener callbacks the step just taken made
    sent_packets,         \* engine -> self._sent_packets, oldest first
    emitted,              \* engine -> every datagram it has sent, oldest first
    added,                \* engine -> the (listener, type, domain) told add_service
    removed,              \* engine -> the (listener, type, domain) whose last
                          \* add_service or remove_service was remove_service
    followed,             \* which of sent_packets, added and removed the model
                          \* follows
    service_types,        \* engine -> BadezimmerServiceBrowser.service_types
    started,              \* engine -> BadezimmerServiceBrowser._started
    delegated,            \* the calls the step made on the browser's delegate
    cleaning              \* engine -> where its _cleanup_loop pass stands

vars == <<now, tiebreaking_attempts, sock, registered_services, ptr_records,
          non_ptr_records, listeners, call, inbox, renovate_at, last, sent,
          notes, sent_packets, emitted, added, removed, followed,
          service_types, started, delegated, cleaning>>

(***************************************************************************)
(* Bounds of the model.                                                    *)
(***************************************************************************)
MaxAttempts == 2
MaxTicks == 2
MaxOwned == 2
MaxSends == 52
MaxOpenSends == 3

(***************************************************************************)
(* Program constants.                                                      *)
(***************************************************************************)
DEFAULT_TTL == 4500
MsPerSecond == 1000
FirstInstanceNum == 2
SentPacketsMaxlen == 50
SERVICE_DISCOVERY_TYPE == <<"_services", ".", "_dns-sd", ".", "_udp", ".", "local">>

Engines == {"E1", "E2"}

(***************************************************************************)
(* Strings.                                                                *)
(***************************************************************************)
Dot == "."
Hyphen == "-"

\* The place of the first sep in s, 0 when there is none.
IndexOf(s, sep) ==
    IF \E i \in 1..Len(s) : s[i] = sep
    THEN CHOOSE i \in 1..Len(s) :
            s[i] = sep /\ \A j \in 1..(i - 1) : s[j] # sep
    ELSE 0

\* s.split(sep)[0]
SplitHead(s, sep) ==
    IF IndexOf(s, sep) = 0 THEN s ELSE SubSeq(s, 1, IndexOf(s, sep) - 1)

\* s.split(sep, 1)[1]
SplitRest(s, sep) == SubSeq(s, IndexOf(s, sep) + 1, Len(s))

generate_domain_name(service_type, instance_name) ==
    instance_name \o <<Dot>> \o service_type

\* A dict with no key.
EmptyMap == [k \in {} |-> k]

\* d[k] = v
Put(d, k, v) == [x \in DOMAIN d \cup {k} |-> IF x = k THEN v ELSE d[x]]

\* del d[k]
Del(d, k) == [x \in DOMAIN d \ {k} |-> d[x]]

\* d.get(k, default)
Get(d, k, default) == IF k \in DOMAIN d THEN d[k] ELSE default

\* The elements of a set in one fixed order: the order in which a dict yields
\* its keys is not modelled beyond being fixed.
RECURSIVE SeqOf(_)
SeqOf(S) ==
    IF S = {} THEN <<>>
    ELSE LET x == CHOOSE y \in S : TRUE IN <<x>> \o SeqOf(S \ {x})

Range(s) == {s[i] : i \in 1..Len(s)}

RECURSIVE Flatten(_)
Flatten(ss) == IF ss = <<>> THEN <<>> ELSE Head(ss) \o Flatten(Tail(ss))

(***************************************************************************)
(* The enums of the schema: a value is its number, Name and Value convert. *)
(***************************************************************************)
DeviceKindNames == <<"UNKNOWN_KIND", "SENSOR_KIND", "ACTUATOR_KIND">>
DeviceCategoryNames == <<"UNKNOWN_CATEGORY", "LIGHT_LAMP", "SINK">>
TransportProtocolNames == <<"UNKNOWN_PROTOCOL", "TCP_PROTOCOL", "UDP_PROTOCOL">>

EnumName(names, v) == names[v + 1]
EnumHas(names, s) == \E i \in 1..Len(names) : names[i] = s
EnumValue(names, s) == (CHOOSE i \in 1..Len(names) : names[i] = s) - 1

UNKNOWN_KIND == EnumValue(DeviceKindNames, "UNKNOWN_KIND")
ACTUATOR_KIND == EnumValue(DeviceKindNames, "ACTUATOR_KIND")
UNKNOWN_CATEGORY == EnumValue(DeviceCategoryNames, "UNKNOWN_CATEGORY")
LIGHT_LAMP == EnumValue(DeviceCategoryNames, "LIGHT_LAMP")
SINK == EnumValue(DeviceCategoryNames, "SINK")
UNKNOWN_PROTOCOL == EnumValue(TransportProtocolNames, "UNKNOWN_PROTOCOL")
TCP_PROTOCOL == EnumValue(TransportProtocolNames, "TCP_PROTOCOL")

(***************************************************************************)
(* EntryRecord.                                                            *)
(***************************************************************************)
current_time_millis == now

EntryRecord(record) ==
    [record |-> record,
     expires_at |-> (record.ttl * MsPerSecond) + current_time_millis]

expired(entry) == entry.expires_at < current_time_millis

(***************************************************************************)
(* MDNSServiceInfo.                                                        *)
(***************************************************************************)
\* get_all_ips_strings_for_adapters() on the host of engine e.
HostAddresses(e) == IF e = "E1" THEN <<"10.0.0.5">> ELSE <<"10.0.0.6">>

\* MDNSServiceInfo.__init__: an empty address list is replaced by the host's.
MDNSServiceInfo(e, name, type_, port, kind, category, protocol, properties, addresses, ttl, allow_name_change) ==
    [name |-> name, type |-> type_, port |-> port, kind |-> kind,
     category |-> category, properties |-> properties,
     addresses |-> IF addresses = <<>> THEN HostAddresses(e) ELSE addresses,
     ttl |-> ttl, allow_name_change |-> allow_name_change,
     protocol |-> protocol]

PtrRecord(type_, ttl, domain_name) ==
    [field |-> "ptr_record", name |-> type_, ttl |-> ttl,
     cache_flush |-> FALSE, domain_name |-> domain_name]

ARecord(domain_name, ttl, ip) ==
    [field |-> "a_record", name |-> domain_name, ttl |-> ttl,
     cache_flush |-> TRUE, address |-> ip]

SrvRecord(domain_name, ttl, info) ==
    [field |-> "srv_record", name |-> domain_name, ttl |-> ttl,
     cache_flush |-> TRUE,
     srv_name |-> info.name,
     \* an enum field set from the value's name
     protocol |-> EnumValue(TransportProtocolNames,
                            EnumName(TransportProtocolNames, info.protocol)),
     service |-> SplitHead(info.type, Dot),
     instance |-> info.name,
     port |-> info.port,
     target |-> domain_name]

\* {"kind": ..., "category": ..., **self.properties}
TxtEntries(info) ==
    [k \in {"kind", "category"} \cup DOMAIN info.properties |->
        IF k \in DOMAIN info.properties THEN info.properties[k]
        ELSE IF k = "kind" THEN EnumName(DeviceKindNames, info.kind)
        ELSE EnumName(DeviceCategoryNames, info.category)]

TxtRecord(domain_name, ttl, info) ==
    [field |-> "txt_record", name |-> domain_name, ttl |-> ttl,
     cache_flush |-> TRUE, entries |-> TxtEntries(info)]

to_records(info) ==
    LET domain_name == generate_domain_name(info.type, info.name)
    IN  <<PtrRecord(info.type, info.ttl, domain_name)>>
        \o [i \in 1..Len(info.addresses) |->
                ARecord(domain_name, info.ttl, info.addresses[i])]
        \o <<SrvRecord(domain_name, info.ttl, info)>>
        \o <<TxtRecord(domain_name, info.ttl, info)>>

SelectField(records, f) == SelectSeq(records, LAMBDA r : r.field = f)

\* The last record of the sequence with this field and name (a dict keeps the
\* last value written under a key); <<>> when there is none.
LastNamed(records, f, name) ==
    LET hits == SelectSeq(records, LAMBDA r : r.field = f /\ r.name = name)
    IN  IF hits = <<>> THEN <<>> ELSE <<hits[Len(hits)]>>

\* The pointers in the order of ptr_map's values: grouped by domain name, the
\* domains in the order of their first pointer.
RECURSIVE GroupPtrs(_)
GroupPtrs(ptrs) ==
    IF ptrs = <<>> THEN <<>>
    ELSE LET d == ptrs[1].domain_name
         IN  SelectSeq(ptrs, LAMBDA p : p.domain_name = d)
             \o GroupPtrs(SelectSeq(ptrs, LAMBDA p : p.domain_name # d))

\* The descriptor from_records builds for one pointer.
InfoOfPtr(e, ptr, records) ==
    LET full_domain_name == ptr.domain_name
        blank == MDNSServiceInfo(e, SplitHead(full_domain_name, Dot), ptr.name,
                                 0, UNKNOWN_KIND, UNKNOWN_CATEGORY,
                                 UNKNOWN_PROTOCOL, EmptyMap, <<>>, DEFAULT_TTL,
                                 TRUE)
        as == SelectSeq(records,
                LAMBDA r : r.field = "a_record" /\ r.name = full_domain_name)
        srv == LastNamed(records, "srv_record", full_domain_name)
        txt == LastNamed(records, "txt_record", full_domain_name)
        withA == IF as = <<>> THEN blank
                 ELSE [blank EXCEPT
                        !.addresses = [i \in 1..Len(as) |-> as[i].address]]
        withSrv == IF srv = <<>> THEN withA
                   ELSE [withA EXCEPT !.port = srv[1].port,
                                      !.protocol = srv[1].protocol]
        props == txt[1].entries
        kindName == IF "kind" \in DOMAIN props THEN props["kind"]
                    ELSE "UNKNOWN_KIND"
        catName == IF "category" \in DOMAIN props THEN props["category"]
                   ELSE "UNKNOWN_CATEGORY"
        \* DeviceKind.Value raises ValueError on an unknown name, and the
        \* except clause then skips what is left of the try block.
        withKind == IF EnumHas(DeviceKindNames, kindName)
                    THEN [withSrv EXCEPT
                            !.kind = EnumValue(DeviceKindNames, kindName)]
                    ELSE withSrv
        withCat == IF EnumHas(DeviceKindNames, kindName)
                      /\ EnumHas(DeviceCategoryNames, catName)
                   THEN [withKind EXCEPT
                            !.category = EnumValue(DeviceCategoryNames, catName)]
                   ELSE withKind
    IN  IF txt = <<>> THEN withSrv
        ELSE [withCat EXCEPT !.properties = props]

\* MDNSServiceInfo.from_records; <<>> stands for None.
from_records(e, records) ==
    LET all_ptrs == GroupPtrs(SelectField(records, "ptr_record"))
    IN  [i \in 1..Len(all_ptrs) |-> InfoOfPtr(e, all_ptrs[i], records)]

(***************************************************************************)
(* The cache of one engine: c.reg is registered_services, c.ptr is         *)
(* ptr_records and c.non is non_ptr_records.                               *)
(***************************************************************************)
Cache(e) == [reg |-> registered_services[e], ptr |-> ptr_records[e],
             non |-> non_ptr_records[e]]

\* The fields of non_ptr_records[domain] in the order _cache_service first
\* writes them, which is the order of to_records.
FieldOrder == <<"a_record", "srv_record", "txt_record">>

\* The details of a domain, for entries in non_ptr_records[domain].values().
DetailRecords(c, domain_name) ==
    IF domain_name \notin DOMAIN c.non THEN <<>>
    ELSE LET fields == SelectSeq(FieldOrder,
                            LAMBDA f : f \in DOMAIN c.non[domain_name])
         IN  Flatten([i \in 1..Len(fields) |->
                [j \in 1..Len(c.non[domain_name][fields[i]]) |->
                    c.non[domain_name][fields[i]][j].record]])

_is_service_defined(c, entry_name, instance_name) ==
    LET records == Get(c.ptr, entry_name, EmptyMap)
        target_domain == generate_domain_name(entry_name, instance_name)
    IN  IF target_domain \notin DOMAIN records THEN FALSE
        ELSE ~expired(records[target_domain])

\* <<>> stands for None, <<info>> for a descriptor.
_reconstruct_info_from_cache(e, c, service_type, domain_name) ==
    IF service_type \notin DOMAIN c.ptr
       \/ domain_name \notin DOMAIN c.ptr[service_type]
    THEN <<>>
    ELSE LET records == <<c.ptr[service_type][domain_name].record>>
                        \o DetailRecords(c, domain_name)
             infos == from_records(e, records)
         IN  IF infos = <<>> THEN <<>> ELSE <<infos[1]>>

\* The detail rows _cache_service writes for a descriptor.
DetailRows(records) ==
    LET fields == {records[i].field : i \in 1..Len(records)} \ {"ptr_record"}
    IN  [f \in fields |->
            LET recs == SelectField(records, f)
            IN  [i \in 1..Len(recs) |-> EntryRecord(recs[i])]]

\* A _cache_service that reports every insertion as a new service.
CacheServiceAlwaysNew(c, info, force_insert) ==
    LET domain_name == generate_domain_name(info.type, info.name)
        is_own_service == domain_name \in Range(Get(c.reg, info.type, <<>>))
        ptr_entry == EntryRecord(PtrRecord(info.type, info.ttl, domain_name))
    IN  IF is_own_service /\ ~force_insert
        THEN [c |-> c, is_new |-> FALSE]
        ELSE [c |-> [c EXCEPT
                      !.ptr = Put(c.ptr, info.type,
                                  Put(Get(c.ptr, info.type, EmptyMap),
                                      domain_name, ptr_entry)),
                      !.non = Put(c.non, domain_name,
                                  DetailRows(to_records(info)))],
              is_new |-> TRUE]

\* A _cache_service that does not look at registered_services.
CacheServiceOverOwned(c, info, force_insert) ==
    LET domain_name == generate_domain_name(info.type, info.name)
        is_existing == info.type \in DOMAIN c.ptr
                       /\ domain_name \in DOMAIN c.ptr[info.type]
        ptr_entry == EntryRecord(PtrRecord(info.type, info.ttl, domain_name))
    IN  [c |-> [c EXCEPT
                 !.ptr = Put(c.ptr, info.type,
                             Put(Get(c.ptr, info.type, EmptyMap),
                                 domain_name, ptr_entry)),
                 !.non = Put(c.non, domain_name,
                             DetailRows(to_records(info)))],
         is_new |-> ~is_existing]

\* The cache after _cache_service, and what it returns.
_cache_service(c, info, force_insert) ==
    LET domain_name == generate_domain_name(info.type, info.name)
        is_existing == info.type \in DOMAIN c.ptr
                       /\ domain_name \in DOMAIN c.ptr[info.type]
        is_own_service == domain_name \in Range(Get(c.reg, info.type, <<>>))
        ptr_entry == EntryRecord(PtrRecord(info.type, info.ttl, domain_name))
    IN  IF is_own_service /\ ~force_insert
        THEN [c |-> c, is_new |-> FALSE]
        ELSE [c |-> [c EXCEPT
                      !.ptr = Put(c.ptr, info.type,
                                  Put(Get(c.ptr, info.type, EmptyMap),
                                      domain_name, ptr_entry)),
                      !.non = Put(c.non, domain_name,
                                  DetailRows(to_records(info)))],
              is_new |-> ~is_existing]

\* A _remove_from_cache that leaves the details of the domain behind.
RemoveKeepingDetails(c, service_type, domain_name) ==
    LET ptr1 == IF service_type \in DOMAIN c.ptr
                THEN LET row == Del(c.ptr[service_type], domain_name)
                     IN  IF DOMAIN row = {} THEN Del(c.ptr, service_type)
                         ELSE Put(c.ptr, service_type, row)
                ELSE c.ptr
    IN  [c EXCEPT !.ptr = ptr1]

\* A _remove_from_cache that leaves a service type with no domain behind.
RemoveLeavingEmptyType(c, service_type, domain_name) ==
    LET ptr1 == IF service_type \in DOMAIN c.ptr
                THEN Put(c.ptr, service_type,
                         Del(c.ptr[service_type], domain_name))
                ELSE c.ptr
    IN  [c EXCEPT !.ptr = ptr1, !.non = Del(c.non, domain_name)]

\* A removal that takes the details of the domain and leaves its pointer.
RemoveDetailsOnly(c, service_type, domain_name) ==
    [c EXCEPT !.non = Del(c.non, domain_name)]

_remove_from_cache(c, service_type, domain_name) ==
    LET ptr1 == IF service_type \in DOMAIN c.ptr
                THEN LET row == Del(c.ptr[service_type], domain_name)
                     IN  IF DOMAIN row = {} THEN Del(c.ptr, service_type)
                         ELSE Put(c.ptr, service_type, row)
                ELSE c.ptr
    IN  [c EXCEPT !.ptr = ptr1, !.non = Del(c.non, domain_name)]

(***************************************************************************)
(* Packets and listeners.                                                  *)
(***************************************************************************)
MDNSQueryResponse(answers, additional_records) ==
    [data |-> "query_response", answers |-> answers,
     additional_records |-> additional_records]

MDNSQueryRequest(questions) ==
    [data |-> "query_request", questions |-> questions]

MDNSQuestion(name) == [name |-> name, type |-> "MDNS_PTR"]

\* The packets _broadcast_service sends for a descriptor.
_broadcast_service(info) ==
    LET records == to_records(info)
    IN  <<MDNSQueryResponse(<<records[1]>>, Tail(records))>>

\* The packets _query_service sends.
_query_service(type_) == <<MDNSQueryRequest(<<MDNSQuestion(type_)>>)>>

\* _send_packet that does not look at the socket.
SendPacketAnySocket(e, packets) == packets

\* What _send_packet puts on the network: nothing without a socket.
_send_packet(e, packets) == IF sock[e] THEN packets ELSE <<>>

\* Listener L1 is one whose remove_service raises, as GatewayListener's does
\* for a device it does not hold; the other callbacks return.
Raises(listener, event) == listener = "L1" /\ event = "remove_service"

\* A notification loop that the first exception of a callback ends.
NotifyUntilRaise(e, c, event, info) ==
    LET raising == {i \in 1..Len(listeners[e]) : Raises(listeners[e][i], event)}
        stop == IF raising = {} THEN Len(listeners[e])
                ELSE CHOOSE i \in raising : \A j \in raising : i <= j
    IN  [i \in 1..stop |->
            [engine |-> e, listener |-> listeners[e][i], event |-> event,
             info |-> info,
             present |-> /\ info.type \in DOMAIN c.ptr
                         /\ generate_domain_name(info.type, info.name)
                                \in DOMAIN c.ptr[info.type],
             raised |-> Raises(listeners[e][i], event)]]

\* The callbacks _notify_listeners_safe makes, one per listener, in order: an
\* exception of a callback is caught and the loop goes on.  c is the cache
\* at that moment, and present tells whether a listener finds the pointer
\* of the descriptor in it.
_notify_listeners_safe(e, c, event, info) ==
    [i \in 1..Len(listeners[e]) |->
        [engine |-> e, listener |-> listeners[e][i], event |-> event,
         info |-> info,
         present |-> /\ info.type \in DOMAIN c.ptr
                     /\ generate_domain_name(info.type, info.name)
                            \in DOMAIN c.ptr[info.type],
         raised |-> Raises(listeners[e][i], event)]]

(***************************************************************************)
(* The response handler.                                                   *)
(***************************************************************************)
\* for info in infos: cache it, then add_service or update_service.
RECURSIVE HandleActive(_, _, _)
HandleActive(e, st, infos) ==
    IF infos = <<>> THEN st
    ELSE LET r == _cache_service(st.c, Head(infos), FALSE)
             event == IF r.is_new THEN "add_service" ELSE "update_service"
         IN  HandleActive(e,
                [c |-> r.c,
                 notes |-> st.notes
                           \o _notify_listeners_safe(e, r.c, event,
                                                     Head(infos))],
                Tail(infos))

\* for rec in expired_records: a pointer found in the cache is removed.
RECURSIVE HandleGoodbye(_, _, _)
HandleGoodbye(e, st, recs) ==
    IF recs = <<>> THEN st
    ELSE LET rec == Head(recs)
             existing_info ==
                IF rec.field = "ptr_record"
                THEN _reconstruct_info_from_cache(e, st.c, rec.name,
                                                  rec.domain_name)
                ELSE <<>>
         IN  IF existing_info = <<>> THEN HandleGoodbye(e, st, Tail(recs))
             ELSE LET c1 == _remove_from_cache(st.c, rec.name,
                                               rec.domain_name)
                  IN  HandleGoodbye(e,
                        [c |-> c1,
                         notes |-> st.notes
                                   \o _notify_listeners_safe(e, c1,
                                        "remove_service", existing_info[1])],
                        Tail(recs))

\* A _handle_response that takes records with TTL 0 for announcements too.
HandleResponseZeroActive(e, c, response) ==
    LET all_records == response.answers \o response.additional_records
        active_records == SelectSeq(all_records, LAMBDA r : r.ttl >= 0)
        expired_records == SelectSeq(all_records, LAMBDA r : r.ttl = 0)
        st1 == HandleActive(e, [c |-> c, notes |-> <<>>],
                            from_records(e, active_records))
    IN  HandleGoodbye(e, st1, expired_records)

\* The cache and the callbacks after _handle_response.
_handle_response(e, c, response) ==
    LET all_records == response.answers \o response.additional_records
        active_records == SelectSeq(all_records, LAMBDA r : r.ttl > 0)
        expired_records == SelectSeq(all_records, LAMBDA r : r.ttl = 0)
        st1 == HandleActive(e, [c |-> c, notes |-> <<>>],
                            from_records(e, active_records))
    IN  HandleGoodbye(e, st1, expired_records)

(***************************************************************************)
(* The query handler.                                                      *)
(***************************************************************************)
\* The owned domains, for domain_list in registered_services.values().
OwnedDomains(c) ==
    LET types == SeqOf(DOMAIN c.reg)
    IN  Flatten([i \in 1..Len(types) |-> c.reg[types[i]]])

\* A query handler that has no case for the meta-type.
AnswerTypeOnly(c, question) ==
    IF question.name \in DOMAIN c.reg
    THEN LET records_map == Get(c.ptr, question.name, EmptyMap)
             domains == SeqOf(DOMAIN records_map)
             owned == c.reg[question.name]
         IN  [ptr |-> [i \in 1..Len(domains) |->
                        records_map[domains[i]].record],
              add |-> Flatten([i \in 1..Len(owned) |->
                                DetailRecords(c, owned[i])])]
    ELSE [ptr |-> <<>>, add |-> <<>>]

\* What one question adds to ptr_records and additional_records.
AnswerQuestion(c, question) ==
    IF question.name = SERVICE_DISCOVERY_TYPE
    THEN LET known == SelectSeq(OwnedDomains(c),
                        LAMBDA d : SplitRest(d, Dot) \in DOMAIN c.ptr
                                   /\ d \in DOMAIN c.ptr[SplitRest(d, Dot)])
         IN  [ptr |-> [i \in 1..Len(known) |->
                        c.ptr[SplitRest(known[i], Dot)][known[i]].record],
              add |-> Flatten([i \in 1..Len(known) |->
                                DetailRecords(c, known[i])])]
    ELSE IF question.name \in DOMAIN c.reg
    THEN LET records_map == Get(c.ptr, question.name, EmptyMap)
             domains == SeqOf(DOMAIN records_map)
             owned == c.reg[question.name]
         IN  [ptr |-> [i \in 1..Len(domains) |->
                        records_map[domains[i]].record],
              add |-> Flatten([i \in 1..Len(owned) |->
                                DetailRecords(c, owned[i])])]
    ELSE [ptr |-> <<>>, add |-> <<>>]

\* The packets _handle_query sends: one response, or none.
_handle_query(c, query) ==
    LET parts == [i \in 1..Len(query.questions) |->
                    AnswerQuestion(c, query.questions[i])]
        ptrs == Flatten([i \in 1..Len(parts) |-> parts[i].ptr])
        adds == Flatten([i \in 1..Len(parts) |-> parts[i].add])
    IN  IF ptrs # <<>> THEN <<MDNSQueryResponse(ptrs, adds)>> ELSE <<>>

(***************************************************************************)
(* unregister_service, update_service and close.  Each gives the cache     *)
(* after the call, the packets it hands to _send_packet and its callbacks. *)
(***************************************************************************)
\* list.remove(x): the list without its first x.
RemoveFirst(s, x) ==
    LET i == IndexOf(s, x)
    IN  IF i = 0 THEN s ELSE SubSeq(s, 1, i - 1) \o SubSeq(s, i + 1, Len(s))

\* Whether (info.type, domain of info) is in registered_services.
IsRegistered(c, info) ==
    /\ info.type \in DOMAIN c.reg
    /\ generate_domain_name(info.type, info.name) \in Range(c.reg[info.type])

\* unregister_service that does not ask whether the engine owns the service.
UnregisterUnowned(e, c, info) ==
    LET domain_name == generate_domain_name(info.type, info.name)
        goodbye_info == [info EXCEPT !.ttl = 0]
        domains == RemoveFirst(Get(c.reg, info.type, <<>>), domain_name)
        reg1 == IF domains = <<>> THEN Del(c.reg, info.type)
                ELSE Put(c.reg, info.type, domains)
        c1 == _remove_from_cache([c EXCEPT !.reg = reg1], info.type,
                                 domain_name)
    IN  [c |-> c1,
         packets |-> _broadcast_service(goodbye_info),
         notes |-> _notify_listeners_safe(e, c1, "remove_service",
                                          goodbye_info)]

unregister_service(e, c, info) ==
    LET domain_name == generate_domain_name(info.type, info.name)
        goodbye_info == [info EXCEPT !.ttl = 0]
        domains == RemoveFirst(c.reg[info.type], domain_name)
        reg1 == IF domains = <<>> THEN Del(c.reg, info.type)
                ELSE Put(c.reg, info.type, domains)
        c1 == _remove_from_cache([c EXCEPT !.reg = reg1], info.type,
                                 domain_name)
    IN  IF ~IsRegistered(c, info)
        THEN [c |-> c, packets |-> <<>>, notes |-> <<>>]
        ELSE [c |-> c1,
              packets |-> _broadcast_service(goodbye_info),
              notes |-> _notify_listeners_safe(e, c1, "remove_service",
                                               goodbye_info)]

\* update_service that caches without force_insert.
UpdateWithoutForce(e, c, info) ==
    LET c1 == _cache_service(c, info, FALSE).c
    IN  IF ~IsRegistered(c, info)
        THEN [c |-> c, packets |-> <<>>, notes |-> <<>>]
        ELSE [c |-> c1,
              packets |-> _broadcast_service(info),
              notes |-> _notify_listeners_safe(e, c1, "update_service", info)]

update_service(e, c, info) ==
    LET c1 == _cache_service(c, info, TRUE).c
    IN  IF ~IsRegistered(c, info)
        THEN [c |-> c, packets |-> <<>>, notes |-> <<>>]
        ELSE [c |-> c1,
              packets |-> _broadcast_service(info),
              notes |-> _notify_listeners_safe(e, c1, "update_service", info)]

\* The goodbyes of close(): one for every owned domain that the cache can
\* still reconstruct, with info.ttl = 0.
CloseGoodbyes(e, c) ==
    LET types == SeqOf(DOMAIN c.reg)
        owned == Flatten([i \in 1..Len(types) |->
                    [j \in 1..Len(c.reg[types[i]]) |->
                        [type |-> types[i], domain |-> c.reg[types[i]][j]]]])
        infos == Flatten([i \in 1..Len(owned) |->
                    _reconstruct_info_from_cache(e, c, owned[i].type,
                                                 owned[i].domain)])
    IN  Flatten([i \in 1..Len(infos) |->
            _broadcast_service([infos[i] EXCEPT !.ttl = 0])])

(***************************************************************************)
(* The cleanup pass of _cleanup_loop.                                      *)
(***************************************************************************)
\* address.startswith(self.excluded_ip_prefixes): the default prefixes are
\* those of the loopback and of the container bridges.
ExcludedAddresses == {"127.0.0.1", "172.17.0.1"}

\* The results _check_service_alive(info) can have: a connection attempt
\* succeeds or fails as the network decides.
_check_service_alive(info) ==
    IF info.addresses = <<>> \/ info.port = 0 THEN {FALSE}
    ELSE IF info.protocol # TCP_PROTOCOL THEN {TRUE}
    ELSE IF \A i \in 1..Len(info.addresses) :
                info.addresses[i] \in ExcludedAddresses
    THEN {FALSE}
    ELSE BOOLEAN

\* The (type, domain) of ptr_records that the engine does not own, in the
\* order the pass visits them.
ForeignPointers(c) ==
    LET types == SeqOf(DOMAIN c.ptr)
        all == Flatten([i \in 1..Len(types) |->
                 [j \in 1..Len(SeqOf(DOMAIN c.ptr[types[i]])) |->
                    [type |-> types[i],
                     domain |-> SeqOf(DOMAIN c.ptr[types[i]])[j]]]])
    IN  SelectSeq(all, LAMBDA p :
            p.domain \notin Range(Get(c.reg, p.type, <<>>)))

expired_services(c) ==
    SelectSeq(ForeignPointers(c),
              LAMBDA p : expired(c.ptr[p.type][p.domain]))

services_to_check(e, c) ==
    SelectSeq(ForeignPointers(c), LAMBDA p :
        /\ ~expired(c.ptr[p.type][p.domain])
        /\ _reconstruct_info_from_cache(e, c, p.type, p.domain) # <<>>)

\* A pass that takes the entries out of the cache and tells no listener.
RECURSIVE RemoveServicesUntold(_, _, _)
RemoveServicesUntold(e, c, pairs) ==
    IF pairs = <<>> THEN [c |-> c, notes |-> <<>>]
    ELSE RemoveServicesUntold(
            e, _remove_from_cache(c, Head(pairs).type, Head(pairs).domain),
            Tail(pairs))

\* Steps 3 and 4 of the pass over the given (type, domain): the entry leaves
\* the cache, then the listeners are told of the descriptor it held.
RECURSIVE RemoveServices(_, _, _)
RemoveServices(e, c, pairs) ==
    IF pairs = <<>> THEN [c |-> c, notes |-> <<>>]
    ELSE LET p == Head(pairs)
             existing_info == _reconstruct_info_from_cache(e, c, p.type,
                                                           p.domain)
             c1 == _remove_from_cache(c, p.type, p.domain)
             told == IF existing_info = <<>> THEN <<>>
                     ELSE _notify_listeners_safe(e, c1, "remove_service",
                                                 existing_info[1])
             rest == RemoveServices(e, c1, Tail(pairs))
         IN  [c |-> rest.c, notes |-> told \o rest.notes]

(***************************************************************************)
(* Tiebreaking.                                                            *)
(***************************************************************************)
\* info.name = f"{info.name.split('-')[0]}-{next_instance_num}"
RenamedInstance(name, next_instance_num) ==
    SplitHead(name, Hyphen) \o <<Hyphen, ToString(next_instance_num)>>

\* A tiebreaker that keeps its attempt counter across a rename.
RECURSIVE TiebreakerKeepingCount(_, _, _, _, _)
TiebreakerKeepingCount(c, info, current_attempt, next_instance_num, attempts) ==
    IF ~(current_attempt < attempts)
    THEN [outcome |-> "claim", info |-> info,
          current_attempt |-> current_attempt,
          next_instance_num |-> next_instance_num]
    ELSE IF _is_service_defined(c, info.type, info.name)
    THEN IF ~info.allow_name_change
         THEN [outcome |-> "raise", info |-> info,
               current_attempt |-> current_attempt,
               next_instance_num |-> next_instance_num]
         ELSE TiebreakerKeepingCount(c,
                [info EXCEPT
                    !.name = RenamedInstance(info.name, next_instance_num)],
                current_attempt, next_instance_num + 1, attempts)
    ELSE [outcome |-> "probe", info |-> info,
          current_attempt |-> current_attempt,
          next_instance_num |-> next_instance_num]

\* _tiebreaker from the top of its loop to its next suspension: the sleep
\* after a probe ("probe"), the exception ("raise") or the end of the loop
\* ("claim").  A rename goes round the loop without suspending.
RECURSIVE _tiebreaker(_, _, _, _, _)
_tiebreaker(c, info, current_attempt, next_instance_num, attempts) ==
    IF ~(current_attempt < attempts)
    THEN [outcome |-> "claim", info |-> info,
          current_attempt |-> current_attempt,
          next_instance_num |-> next_instance_num]
    ELSE IF _is_service_defined(c, info.type, info.name)
    THEN IF ~info.allow_name_change
         THEN [outcome |-> "raise", info |-> info,
               current_attempt |-> current_attempt,
               next_instance_num |-> next_instance_num]
         ELSE _tiebreaker(c,
                [info EXCEPT
                    !.name = RenamedInstance(info.name, next_instance_num)],
                0, next_instance_num + 1, attempts)
    ELSE [outcome |-> "probe", info |-> info,
          current_attempt |-> current_attempt,
          next_instance_num |-> next_instance_num]

(***************************************************************************)
(* The descriptors and datagrams of the model.                             *)
(***************************************************************************)
LampType == <<"_lightlamp", ".", "_tcp", ".", "local", ".">>
SinkType == <<"_sink", ".", "_tcp", ".", "local", ".">>

LampName == <<"Lamp">>
MyLampName == <<"my", "-", "lamp">>
KitchenName == <<"Kitchen">>

Lamp(e, name, allow_name_change) ==
    MDNSServiceInfo(e, name, LampType, 1234, ACTUATOR_KIND, LIGHT_LAMP,
                    TCP_PROTOCOL, [is_on |-> "false"], <<>>, DEFAULT_TTL,
                    allow_name_change)

\* The lamp after it has been switched on.
LampOn(e) ==
    MDNSServiceInfo(e, LampName, LampType, 1234, ACTUATOR_KIND, LIGHT_LAMP,
                    TCP_PROTOCOL, [is_on |-> "true"], <<>>, DEFAULT_TTL, TRUE)

\* What the host of engine e may update or unregister.
OpsInfos(e) == {Lamp(e, LampName, TRUE), LampOn(e)}

\* The lamp of engine e, registered with either allow_name_change.
LampInfos(e) == {Lamp(e, LampName, b) : b \in BOOLEAN}

\* What the host of engine e may register.
LocalInfos(e) ==
    {Lamp(e, LampName, b) : b \in BOOLEAN} \cup {Lamp(e, MyLampName, TRUE)}

\* The services of hosts that are not engines of the model.
Kitchen(is_on) ==
    MDNSServiceInfo("remote", KitchenName, SinkType, 9000, ACTUATOR_KIND, SINK,
                    TCP_PROTOCOL, [is_on |-> is_on], <<"10.0.0.7">>, 60, TRUE)

RemoteLamp ==
    MDNSServiceInfo("remote", LampName, LampType, 4321, ACTUATOR_KIND,
                    LIGHT_LAMP, TCP_PROTOCOL, [is_on |-> "true"],
                    <<"10.0.0.8", "10.0.0.9">>, 60, TRUE)

RemoteInfos == {Kitchen("false"), Kitchen("true"), RemoteLamp}

\* A goodbye that holds the pointer alone.
GoodbyePtr(info) ==
    MDNSQueryResponse(
        <<PtrRecord(info.type, 0, generate_domain_name(info.type, info.name))>>,
        <<>>)

\* An announcement whose answers hold the pointer twice.
TwicePointed(info) ==
    LET records == to_records(info)
    IN  MDNSQueryResponse(<<records[1], records[1]>>, Tail(records))

\* The datagrams such hosts send: announcements, goodbyes and queries.
EnvDatagrams ==
    {_broadcast_service(i)[1] : i \in RemoteInfos}
    \cup {_broadcast_service([i EXCEPT !.ttl = 0])[1] : i \in {Kitchen("true")}}
    \cup {GoodbyePtr(i) : i \in {Kitchen("false"), RemoteLamp}}
    \cup {TwicePointed(Kitchen("false"))}
    \cup {_query_service(t)[1] : t \in {LampType, SinkType, SERVICE_DISCOVERY_TYPE}}

TimedDatagrams ==
    {_broadcast_service(i)[1] : i \in {Kitchen("false"), RemoteLamp}}
    \cup {GoodbyePtr(i) : i \in {Kitchen("false"), RemoteLamp}}

(***************************************************************************)
(* Time.                                                                   *)
(***************************************************************************)
\* renovation_interval = DEFAULT_TTL * 0.75, in milliseconds
RenovationInterval == ((DEFAULT_TTL * 3) \div 4) * MsPerSecond

\* The clock is observed every renovation interval.
ClockStep == RenovationInterval

(***************************************************************************)
(* Steps.                                                                  *)
(***************************************************************************)
IdleCall == [pc |-> "idle"]

\* The cleanup loop is asleep between two passes.
IdlePass == [pc |-> "idle"]

Owned(e) == OwnedDomains(Cache(e))

\* Every engine with a socket other than the sender gets the datagrams.
Multicast(e, packets) ==
    [x \in Engines |->
        IF x # e /\ sock[x] THEN inbox[x] \cup Range(packets) ELSE inbox[x]]

SetCache(e, c) ==
    /\ registered_services' = [registered_services EXCEPT ![e] = c.reg]
    /\ ptr_records' = [ptr_records EXCEPT ![e] = c.ptr]
    /\ non_ptr_records' = [non_ptr_records EXCEPT ![e] = c.non]

\* The bytes of a datagram: the packet with the transaction id and the
\* timestamp _send_packet gives it, which no two datagrams of an engine share.
RawBytes(packet, serial) == [packet |-> packet, transaction_id |-> serial]

\* The last SentPacketsMaxlen elements of q: deque(maxlen=50).
KeepLast(q) ==
    IF Len(q) <= SentPacketsMaxlen THEN q
    ELSE SubSeq(q, Len(q) - SentPacketsMaxlen + 1, Len(q))

\* The datagrams engine e sends for the packets, given those it sent before.
Datagrams(e, packets) ==
    [i \in 1..Len(_send_packet(e, packets)) |->
        RawBytes(packets[i], Len(emitted[e]) + i)]

\* The (listener, type, domain) that the callbacks tell add_service.
AddedBy(callbacks) ==
    {<<callbacks[i].listener, callbacks[i].info.type,
       generate_domain_name(callbacks[i].info.type, callbacks[i].info.name)>> :
        i \in {j \in 1..Len(callbacks) : callbacks[j].event = "add_service"}}

\* The (listener, type, domain) whose last add_service or remove_service is
\* remove_service once the callbacks have been made in their order.
RECURSIVE RemovedAfter(_, _)
RemovedAfter(gone, callbacks) ==
    IF callbacks = <<>> THEN gone
    ELSE LET n == Head(callbacks)
             k == <<n.listener, n.info.type,
                    generate_domain_name(n.info.type, n.info.name)>>
         IN  RemovedAfter(CASE n.event = "add_service" -> gone \ {k}
                            [] n.event = "remove_service" -> gone \cup {k}
                            [] OTHER -> gone,
                          Tail(callbacks))

\* Browser callbacks that know no meta-type.
BrowserCallbackOfTypeOnly(types, event, info) ==
    IF info.type \in types
    THEN <<[event |-> event, info |-> info]>>
    ELSE <<>>

\* BadezimmerServiceBrowser.add_service, remove_service and update_service:
\* the calls on the delegate that one callback of the engine leads to.
BrowserCallback(types, event, info) ==
    IF SERVICE_DISCOVERY_TYPE \in types \/ info.type \in types
    THEN <<[event |-> event, info |-> info]>>
    ELSE <<>>

\* The browser of engine e is the listener "B" of its engine: what its
\* delegate gets of the callbacks.
Delegated(e, callbacks) ==
    LET mine == SelectSeq(callbacks, LAMBDA n : n.listener = "B")
    IN  Flatten([i \in 1..Len(mine) |->
            BrowserCallback(service_types[e], mine[i].event, mine[i].info)])

\* What is seen of a step of engine e: its packets and its callbacks.
Observe(e, packets, callbacks) ==
    /\ sent' = [i \in 1..Len(_send_packet(e, packets)) |->
                    [engine |-> e, packet |-> packets[i]]]
    /\ notes' = callbacks
    /\ IF "sent_packets" \in followed
       THEN /\ sent_packets' = [sent_packets EXCEPT
                                ![e] = KeepLast(@ \o Datagrams(e, packets))]
            /\ emitted' = [emitted EXCEPT ![e] = @ \o Datagrams(e, packets)]
       ELSE UNCHANGED <<sent_packets, emitted>>
    /\ added' = IF "added" \in followed
                THEN [added EXCEPT ![e] = @ \cup AddedBy(callbacks)]
                ELSE added
    /\ removed' = IF "removed" \in followed
                  THEN [removed EXCEPT ![e] = RemovedAfter(@, callbacks)]
                  ELSE removed
    /\ followed' = followed

Emit(e, packets, callbacks) ==
    /\ Observe(e, packets, callbacks)
    /\ delegated' = Delegated(e, callbacks)
    /\ UNCHANGED <<service_types, started, cleaning>>

\* The host calls register_service(info): the call sleeps 150 to 250 ms.
RegisterCall(e, info) ==
    /\ call[e].pc = "idle"
    /\ Len(Owned(e)) < MaxOwned
    /\ call' = [call EXCEPT ![e] =
                    [pc |-> "delay", info |-> info, requested |-> info.name,
                     current_attempt |-> 0,
                     next_instance_num |-> FirstInstanceNum,
                     probes |-> 0, renames |-> 0, clean |-> 0,
                     error |-> "none"]]
    /\ last' = [op |-> "register_service", engine |-> e]
    /\ Emit(e, <<>>, <<>>)
    /\ inbox' = inbox
    /\ UNCHANGED <<now, tiebreaking_attempts, sock, registered_services,
                   ptr_records, non_ptr_records, listeners, renovate_at>>

\* register_service from a wake-up of the call to its next suspension or its
\* end.  c is the cache the tiebreaker starts from and attempt its counter.
RegisterRun(e, c, attempt) ==
    LET k == call[e]
        t == _tiebreaker(c, k.info, attempt, k.next_instance_num,
                         tiebreaking_attempts[e])
        renamed == t.next_instance_num - k.next_instance_num
        full_domain == generate_domain_name(t.info.type, t.info.name)
        owned == [c EXCEPT !.reg = Put(c.reg, t.info.type,
                                Append(c.reg[t.info.type], full_domain))]
        cached == _cache_service(owned, t.info, TRUE).c
        running == [k EXCEPT !.info = t.info,
                             !.current_attempt = t.current_attempt,
                             !.next_instance_num = t.next_instance_num,
                             !.renames = k.renames + renamed,
                             !.clean = IF renamed > 0 THEN 0 ELSE k.clean]
    IN  CASE t.outcome = "probe" ->
                /\ call' = [call EXCEPT ![e] =
                             [running EXCEPT !.pc = "probe",
                                             !.probes = k.probes + 1,
                                             !.clean = @ + 1]]
                /\ SetCache(e, c)
                /\ Emit(e, _query_service(t.info.type), <<>>)
                /\ inbox' = Multicast(e, _send_packet(e,
                                            _query_service(t.info.type)))
          [] t.outcome = "raise" ->
                /\ call' = [call EXCEPT ![e] =
                             [running EXCEPT !.pc = "failed",
                                    !.error = "NonUniqueNameException"]]
                /\ SetCache(e, c)
                /\ Emit(e, <<>>, <<>>)
                /\ inbox' = inbox
          [] t.outcome = "claim" /\ t.info.type \notin DOMAIN c.reg ->
                \* registered_services[info.type] of a key that an
                \* unregister_service has deleted meanwhile
                /\ call' = [call EXCEPT ![e] =
                             [running EXCEPT !.pc = "failed",
                                             !.error = "KeyError"]]
                /\ SetCache(e, c)
                /\ Emit(e, <<>>, <<>>)
                /\ inbox' = inbox
          [] t.outcome = "claim" /\ t.info.type \in DOMAIN c.reg ->
                /\ call' = [call EXCEPT ![e] = [running EXCEPT !.pc = "done"]]
                /\ SetCache(e, cached)
                /\ Emit(e, _broadcast_service(t.info), <<>>)
                /\ inbox' = Multicast(e, _send_packet(e,
                                            _broadcast_service(t.info)))

\* A register_service that appends the domain before its tiebreaker runs.
RegisterWakeClaiming(e) ==
    /\ call[e].pc = "delay"
    /\ LET c == Cache(e)
           t == call[e].info.type
           d == generate_domain_name(t, call[e].info.name)
       IN  RegisterRun(e, [c EXCEPT !.reg = Put(c.reg, t,
                                        Append(Get(c.reg, t, <<>>), d))],
                       0)
    /\ last' = [op |-> "register_wake", engine |-> e]
    /\ UNCHANGED <<now, tiebreaking_attempts, sock, listeners, renovate_at>>

\* The call wakes from its first sleep: setdefault, then the tiebreaker.
RegisterWake(e) ==
    /\ call[e].pc = "delay"
    /\ LET c == Cache(e)
           t == call[e].info.type
       IN  RegisterRun(e, [c EXCEPT !.reg = Put(c.reg, t, Get(c.reg, t, <<>>))],
                       0)
    /\ last' = [op |-> "register_wake", engine |-> e]
    /\ UNCHANGED <<now, tiebreaking_attempts, sock, listeners, renovate_at>>

\* The call wakes from the sleep after a probe: current_attempt += 1.
TiebreakWake(e) ==
    /\ call[e].pc = "probe"
    /\ RegisterRun(e, Cache(e), call[e].current_attempt + 1)
    /\ last' = [op |-> "tiebreak_wake", engine |-> e]
    /\ UNCHANGED <<now, tiebreaking_attempts, sock, listeners, renovate_at>>

\* register_service has returned or raised, and the host goes on.
RegisterEnd(e) ==
    /\ call[e].pc \in {"done", "failed"}
    /\ call' = [call EXCEPT ![e] = IdleCall]
    /\ last' = [op |-> "register_end", engine |-> e]
    /\ Emit(e, <<>>, <<>>)
    /\ inbox' = inbox
    /\ UNCHANGED <<now, tiebreaking_attempts, sock, registered_services,
                   ptr_records, non_ptr_records, listeners, renovate_at>>

\* The task of the call is cancelled while it sleeps in register_service or
\* in _tiebreaker: CancelledError ends the call where it stands.
Cancel(e) ==
    /\ call[e].pc \in {"delay", "probe"}
    /\ call' = [call EXCEPT ![e] = [@ EXCEPT !.pc = "failed",
                                            !.error = "CancelledError"]]
    /\ last' = [op |-> "cancel", engine |-> e, info |-> call[e].info,
                at |-> call[e].pc]
    /\ Emit(e, <<>>, <<>>)
    /\ inbox' = inbox
    /\ UNCHANGED <<now, tiebreaking_attempts, sock, registered_services,
                   ptr_records, non_ptr_records, listeners, renovate_at>>

\* The host calls start() on an engine that has no socket yet.
Start(e) ==
    /\ ~sock[e]
    /\ sock' = [sock EXCEPT ![e] = TRUE]
    /\ last' = [op |-> "start", engine |-> e]
    /\ Emit(e, <<>>, <<>>)
    /\ inbox' = inbox
    /\ UNCHANGED <<now, tiebreaking_attempts, registered_services,
                   ptr_records, non_ptr_records, listeners, call, renovate_at>>

\* _recv_loop hands a datagram to _handle_packet.
HandlePacket(e, packet) ==
    /\ sock[e]
    /\ IF packet.data = "query_request"
       THEN LET reply == _handle_query(Cache(e), packet)
            IN  /\ SetCache(e, Cache(e))
                /\ Emit(e, reply, <<>>)
                /\ inbox' = [Multicast(e, _send_packet(e, reply))
                                EXCEPT ![e] = @ \ {packet}]
       ELSE LET st == _handle_response(e, Cache(e), packet)
            IN  /\ SetCache(e, st.c)
                /\ Emit(e, <<>>, st.notes)
                /\ inbox' = [inbox EXCEPT ![e] = @ \ {packet}]
    /\ last' = [op |-> "recv", engine |-> e, packet |-> packet]
    /\ UNCHANGED <<now, tiebreaking_attempts, sock, listeners, call,
                   renovate_at>>

\* The host calls unregister_service(info), which does not suspend.
Unregister(e, info) ==
    LET r == unregister_service(e, Cache(e), info)
    IN  /\ SetCache(e, r.c)
        /\ Emit(e, r.packets, r.notes)
        /\ inbox' = Multicast(e, _send_packet(e, r.packets))
        /\ last' = [op |-> "unregister_service", engine |-> e, info |-> info]
        /\ UNCHANGED <<now, tiebreaking_attempts, sock, listeners, call,
                       renovate_at>>

\* The descriptor object the host passed to unregister_service, as the call
\* leaves it: goodbye_info is info itself, and its ttl is set to 0.
Unregistered(info) == [info EXCEPT !.ttl = 0]

\* The host calls register_service with the object it has just had
\* unregistered.
RegisterAgain(e) ==
    /\ last.op = "unregister_service"
    /\ last.engine = e
    /\ sent # <<>>
    /\ \E info \in {Unregistered(last.info)} : RegisterCall(e, info)

\* The host calls update_service(info), which does not suspend.
Update(e, info) ==
    LET r == update_service(e, Cache(e), info)
    IN  /\ SetCache(e, r.c)
        /\ Emit(e, r.packets, r.notes)
        /\ inbox' = Multicast(e, _send_packet(e, r.packets))
        /\ last' = [op |-> "update_service", engine |-> e, info |-> info]
        /\ UNCHANGED <<now, tiebreaking_attempts, sock, listeners, call,
                       renovate_at>>

\* The host calls close(): the goodbyes, then the tasks are cancelled and the
\* socket is closed.  No datagram is handled between the two, the receive
\* task being cancelled first.
Close(e) ==
    LET packets == CloseGoodbyes(e, Cache(e))
    IN  /\ Emit(e, packets, <<>>)
        /\ inbox' = Multicast(e, _send_packet(e, packets))
        /\ sock' = [sock EXCEPT ![e] = FALSE]
        /\ last' = [op |-> "close", engine |-> e, open |-> sock[e]]
        /\ UNCHANGED <<now, tiebreaking_attempts, registered_services,
                       ptr_records, non_ptr_records, listeners, call,
                       renovate_at>>

\* _cleanup_loop wakes up and makes one pass: the expired entries and those
\* whose host does not answer the connection attempt are removed.
Cleanup(e) ==
    /\ sock[e]
    /\ LET c == Cache(e)
           checked == services_to_check(e, c)
       IN  \E down \in SUBSET (1..Len(checked)) :
            /\ \A i \in 1..Len(checked) :
                    (i \notin down) \in _check_service_alive(
                        _reconstruct_info_from_cache(e, c, checked[i].type,
                                                     checked[i].domain)[1])
            /\ LET unresponsive_services ==
                        SelectSeq(checked, LAMBDA p :
                            \E i \in down : checked[i] = p)
                   r == RemoveServices(e, c, expired_services(c)
                                             \o unresponsive_services)
               IN  /\ SetCache(e, r.c)
                   /\ Emit(e, <<>>, r.notes)
                   /\ last' = [op |-> "cleanup", engine |-> e,
                               expired |-> expired_services(c),
                               unresponsive |-> unresponsive_services]
    /\ inbox' = inbox
    /\ UNCHANGED <<now, tiebreaking_attempts, sock, listeners, call,
                   renovate_at>>

\* The pass of _cleanup_loop up to its await of the health checks.  With no
\* service to check nothing is awaited and the pass runs to its end.
CleanupCollect(e) ==
    /\ sock[e]
    /\ cleaning[e].pc = "idle"
    /\ LET c == Cache(e)
           expired_now == expired_services(c)
           pairs == services_to_check(e, c)
           checked == [i \in 1..Len(pairs) |->
                        [type |-> pairs[i].type, domain |-> pairs[i].domain,
                         info |-> _reconstruct_info_from_cache(
                                     e, c, pairs[i].type, pairs[i].domain)[1]]]
       IN  IF checked = <<>>
           THEN LET r == RemoveServices(e, c, expired_now)
                IN  /\ SetCache(e, r.c)
                    /\ Observe(e, <<>>, r.notes)
                    /\ delegated' = Delegated(e, r.notes)
                    /\ cleaning' = cleaning
                    /\ last' = [op |-> "cleanup", engine |-> e,
                                expired |-> expired_now,
                                unresponsive |-> <<>>]
           ELSE /\ cleaning' = [cleaning EXCEPT ![e] =
                                  [pc |-> "checking",
                                   expired_services |-> expired_now,
                                   services_to_check |-> checked]]
                /\ Observe(e, <<>>, <<>>)
                /\ delegated' = <<>>
                /\ last' = [op |-> "cleanup_collect", engine |-> e]
                /\ UNCHANGED <<registered_services, ptr_records,
                               non_ptr_records>>
    /\ inbox' = inbox
    /\ UNCHANGED <<now, tiebreaking_attempts, sock, listeners, call,
                   renovate_at, service_types, started>>

\* The health checks have answered: the rest of the pass, over what was
\* collected before the await.
CleanupResume(e) ==
    /\ sock[e]
    /\ cleaning[e].pc = "checking"
    /\ LET checked == cleaning[e].services_to_check
       IN  \E down \in SUBSET (1..Len(checked)) :
            /\ \A i \in 1..Len(checked) :
                    (i \notin down) \in _check_service_alive(checked[i].info)
            /\ LET dead == SelectSeq(checked, LAMBDA p :
                                \E i \in down : checked[i] = p)
                   unresponsive_services ==
                        [i \in 1..Len(dead) |->
                            [type |-> dead[i].type, domain |-> dead[i].domain]]
                   r == RemoveServices(e, Cache(e),
                                       cleaning[e].expired_services
                                       \o unresponsive_services)
               IN  /\ SetCache(e, r.c)
                   /\ Observe(e, <<>>, r.notes)
                   /\ delegated' = Delegated(e, r.notes)
                   /\ last' = [op |-> "cleanup", engine |-> e,
                               expired |-> cleaning[e].expired_services,
                               unresponsive |-> unresponsive_services]
    /\ cleaning' = [cleaning EXCEPT ![e] = IdlePass]
    /\ inbox' = inbox
    /\ UNCHANGED <<now, tiebreaking_attempts, sock, listeners, call,
                   renovate_at, service_types, started>>

\* _replay_cache: the add_service calls on the delegate for the cached,
\* unexpired services of the subscribed types.
_replay_cache(e, c) ==
    LET types == SelectSeq(SeqOf(service_types[e]),
                           LAMBDA t : t \in DOMAIN c.ptr)
        cached == Flatten([i \in 1..Len(types) |->
                    [j \in 1..Len(SeqOf(DOMAIN c.ptr[types[i]])) |->
                        [type |-> types[i],
                         domain |-> SeqOf(DOMAIN c.ptr[types[i]])[j]]]])
        fresh == SelectSeq(cached, LAMBDA p :
                    ~expired(c.ptr[p.type][p.domain]))
        infos == Flatten([i \in 1..Len(fresh) |->
                    _reconstruct_info_from_cache(e, c, fresh[i].type,
                                                 fresh[i].domain)])
    IN  [i \in 1..Len(infos) |-> [event |-> "add_service", info |-> infos[i]]]

\* The queries BadezimmerServiceBrowser.start sends, one per subscribed type.
BrowserQueries(e) ==
    Flatten([i \in 1..Len(SeqOf(service_types[e])) |->
                _query_service(SeqOf(service_types[e])[i])])

\* The host calls BadezimmerServiceBrowser.start(): the engine is started if
\* it is not, the browser becomes a listener, the cache is replayed and the
\* subscribed types are queried.  A second call returns at once.
BrowserStart(e) ==
    /\ IF started[e]
       THEN /\ Observe(e, <<>>, <<>>)
            /\ delegated' = <<>>
            /\ inbox' = inbox
            /\ UNCHANGED <<sock, listeners, started>>
       ELSE /\ sock' = [sock EXCEPT ![e] = TRUE]
            /\ started' = [started EXCEPT ![e] = TRUE]
            /\ listeners' = [listeners EXCEPT ![e] = Append(@, "B")]
            /\ delegated' = _replay_cache(e, Cache(e))
            /\ sent' = [i \in 1..Len(BrowserQueries(e)) |->
                            [engine |-> e, packet |-> BrowserQueries(e)[i]]]
            /\ notes' = <<>>
            /\ inbox' = [x \in Engines |->
                            IF x # e /\ sock[x]
                            THEN inbox[x] \cup Range(BrowserQueries(e))
                            ELSE inbox[x]]
            /\ UNCHANGED <<sent_packets, emitted, added, removed, followed>>
    /\ last' = [op |-> "browser_start", engine |-> e, again |-> started[e]]
    /\ UNCHANGED <<now, tiebreaking_attempts, registered_services,
                   ptr_records, non_ptr_records, call, renovate_at,
                   service_types, cleaning>>

\* _recv_loop that hands every datagram to _handle_packet.
RecvLoopUnfiltered(e, data) == HandlePacket(e, data.packet)

\* _recv_loop takes datagram data off the socket: one of sent_packets is
\* skipped, any other goes to _handle_packet.
RecvLoop(e, data) ==
    IF \E i \in 1..Len(sent_packets[e]) : sent_packets[e][i] = data
    THEN /\ sock[e]
         /\ last' = [op |-> "echo", engine |-> e, data |-> data]
         /\ Emit(e, <<>>, <<>>)
         /\ inbox' = inbox
         /\ UNCHANGED <<now, tiebreaking_attempts, sock, registered_services,
                        ptr_records, non_ptr_records, listeners, call,
                        renovate_at>>
    ELSE HandlePacket(e, data.packet)

\* A datagram of another engine arrives.
RecvFromNet(e) == \E packet \in inbox[e] : HandlePacket(e, packet)

\* A datagram of a host outside the model arrives.
RecvFromEnv(e) == \E packet \in EnvDatagrams : HandlePacket(e, packet)

\* The same, of the hosts that matter while time passes.
RecvTimed(e) == \E packet \in TimedDatagrams : HandlePacket(e, packet)

\* The descriptors _renovate_loop re-broadcasts.
RenovatedInfos(e) ==
    LET owned == Owned(e)
    IN  Flatten([i \in 1..Len(owned) |->
            _reconstruct_info_from_cache(e, Cache(e), SplitRest(owned[i], Dot),
                                         owned[i])])

\* _renovate_loop wakes up and re-broadcasts every owned service.
Renovate(e) ==
    /\ sock[e]
    /\ now >= renovate_at[e]
    /\ LET infos == RenovatedInfos(e)
           packets == Flatten([i \in 1..Len(infos) |->
                                _broadcast_service(infos[i])])
       IN  /\ Emit(e, packets, <<>>)
           /\ inbox' = Multicast(e, _send_packet(e, packets))
    /\ renovate_at' = [renovate_at EXCEPT ![e] = now + RenovationInterval]
    /\ last' = [op |-> "renovate", engine |-> e]
    /\ UNCHANGED <<now, tiebreaking_attempts, sock, registered_services,
                   ptr_records, non_ptr_records, listeners, call>>

\* Time passes, but not past the wake-up of a renovation loop.
Tick ==
    /\ now < MaxTicks * ClockStep
    /\ \A e \in Engines : sock[e] => now < renovate_at[e]
    /\ now' = now + ClockStep
    /\ last' = [op |-> "tick"]
    /\ sent' = <<>>
    /\ notes' = <<>>
    /\ UNCHANGED <<tiebreaking_attempts, sock, registered_services,
                   ptr_records, non_ptr_records, listeners, call, inbox,
                   renovate_at, sent_packets, emitted, added, removed,
                   followed, service_types, started, cleaning>>
    /\ delegated' = <<>>

(***************************************************************************)
(* One engine and the hosts around it.                                     *)
(***************************************************************************)
Solo == {"E1"}

InitCommon ==
    /\ now = 0
    /\ tiebreaking_attempts \in [Engines -> 0..MaxAttempts]
    /\ registered_services = [e \in Engines |-> EmptyMap]
    /\ ptr_records = [e \in Engines |-> EmptyMap]
    /\ non_ptr_records = [e \in Engines |-> EmptyMap]
    /\ listeners = [e \in Engines |-> <<"L1", "L2">>]
    /\ call = [e \in Engines |-> IdleCall]
    /\ inbox = [e \in Engines |-> {}]
    /\ renovate_at = [e \in Engines |-> RenovationInterval]
    /\ last = [op |-> "init"]
    /\ sent = <<>>
    /\ notes = <<>>
    /\ sent_packets = [e \in Engines |-> <<>>]
    /\ emitted = [e \in Engines |-> <<>>]
    /\ added = [e \in Engines |-> {}]
    /\ removed = [e \in Engines |-> {}]
    /\ started = [e \in Engines |-> FALSE]
    /\ delegated = <<>>
    /\ cleaning = [e \in Engines |-> IdlePass]

\* Every datagram such an engine receives is another host's, and the history
\* of its callbacks is not asked for: neither is followed.
Init ==
    /\ InitCommon
    /\ followed = {}
    /\ service_types = [e \in Engines |-> {}]
    /\ sock = [e \in Engines |-> e \in Solo]
    /\ tiebreaking_attempts["E2"] = 0

Next ==
    \/ \E e \in Solo : \E info \in LocalInfos(e) : RegisterCall(e, info)
    \/ \E e \in Solo : RegisterWake(e)
    \/ \E e \in Solo : TiebreakWake(e)
    \/ \E e \in Solo : RegisterEnd(e)
    \/ \E e \in Solo : RecvFromEnv(e)

Spec == Init /\ [][Next]_vars

(***************************************************************************)
(* One engine that registers while a remote lamp comes and goes.  The      *)
(* event loop resumes a sleeping register_service when its timer is due.   *)
(***************************************************************************)
ProbeDatagrams == {_broadcast_service(RemoteLamp)[1], GoodbyePtr(RemoteLamp)}

RecvWhileProbing(e) == \E packet \in ProbeDatagrams : HandlePacket(e, packet)

ProbeNext ==
    \/ \E e \in Solo : \E info \in LocalInfos(e) : RegisterCall(e, info)
    \/ \E e \in Solo : RegisterWake(e)
    \/ \E e \in Solo : TiebreakWake(e)
    \/ \E e \in Solo : RegisterEnd(e)
    \/ \E e \in Solo : RecvWhileProbing(e)

ProbeSpec ==
    /\ Init
    /\ [][ProbeNext]_vars
    /\ \A e \in Solo : WF_vars(RegisterWake(e)) /\ WF_vars(TiebreakWake(e))

(***************************************************************************)
(* One engine whose own datagrams come back to its socket.                 *)
(***************************************************************************)
\* A query for the lamps from another host: its bytes are none of the engine's.
ForeignQuery == RawBytes(_query_service(LampType)[1], 0)

\* The oldest and the newest datagram the engine has sent.
Loopbacks(e) ==
    IF emitted[e] = <<>> THEN {}
    ELSE {emitted[e][1], emitted[e][Len(emitted[e])]}

EchoInit ==
    /\ InitCommon
    /\ followed = {"sent_packets"}
    /\ service_types = [e \in Engines |-> {}]
    /\ sock = [e \in Engines |-> e \in Solo]
    /\ tiebreaking_attempts["E2"] = 0

EchoNext ==
    \/ \E e \in Solo :
            /\ Owned(e) = <<>>
            /\ \E info \in LampInfos(e) :
                    info.allow_name_change /\ RegisterCall(e, info)
    \/ \E e \in Solo : RegisterWake(e)
    \/ \E e \in Solo : TiebreakWake(e)
    \/ \E e \in Solo : RegisterEnd(e)
    \/ \E e \in Solo : Len(emitted[e]) < MaxSends /\ RecvLoop(e, ForeignQuery)
    \/ \E e \in Solo : \E data \in Loopbacks(e) :
            Len(emitted[e]) < MaxSends /\ RecvLoop(e, data)

EchoSpec == EchoInit /\ [][EchoNext]_vars

(***************************************************************************)
(* The descriptor and its records, apart from any engine.                  *)
(***************************************************************************)
\* The descriptors a host may build.
Descriptors ==
    {MDNSServiceInfo("remote", name, type_, port, kc.kind, kc.category,
                     kc.protocol, properties, addresses, ttl,
                     allow_name_change) :
        name \in {LampName, KitchenName},
        type_ \in {LampType, SinkType},
        port \in {1234, 9000},
        kc \in {[kind |-> ACTUATOR_KIND, category |-> LIGHT_LAMP,
                  protocol |-> TCP_PROTOCOL],
                 [kind |-> EnumValue(DeviceKindNames, "SENSOR_KIND"),
                  category |-> SINK,
                  protocol |-> EnumValue(TransportProtocolNames,
                                         "UDP_PROTOCOL")]},
        properties \in {EmptyMap, [is_on |-> "true"]},
        addresses \in {<<"10.0.0.7">>, <<"10.0.0.8", "10.0.0.9">>},
        ttl \in {60, DEFAULT_TTL},
        allow_name_change \in BOOLEAN}

\* No engine does anything.
EnginesIdle ==
    /\ Observe("E2", <<>>, <<>>)
    /\ delegated' = <<>>
    /\ UNCHANGED <<now, tiebreaking_attempts, sock, registered_services,
                   ptr_records, non_ptr_records, listeners, call, inbox,
                   renovate_at, service_types, started, cleaning>>

CodecInit ==
    /\ InitCommon
    /\ followed = {}
    /\ service_types = [e \in Engines |-> {}]
    /\ sock = [e \in Engines |-> FALSE]
    /\ tiebreaking_attempts = [e \in Engines |-> 0]

\* A host builds a descriptor and takes its records.
ToRecords(d) ==
    /\ last.op \in {"init", "from_records"}
    /\ last' = [op |-> "to_records", d |-> d, records |-> to_records(d)]
    /\ EnginesIdle

\* A host parses the records it was given.
FromRecords ==
    /\ last.op = "to_records"
    /\ last' = [op |-> "from_records", d |-> last.d,
                infos |-> from_records("remote", last.records)]
    /\ EnginesIdle

CodecNext ==
    \/ \E d \in Descriptors : ToRecords(d)
    \/ FromRecords

CodecSpec == CodecInit /\ [][CodecNext]_vars

(***************************************************************************)
(* The cache of one engine under insertions, apart from the network.       *)
(***************************************************************************)
\* The versions of one lamp: their addresses, properties, ttl and
\* allow_name_change differ.
LampVersions ==
    {d \in Descriptors : /\ d.name = LampName
                         /\ d.type = LampType
                         /\ d.port = 1234
                         /\ d.kind = ACTUATOR_KIND}

\* The engine owns nothing, or has just appended the lamp's domain to its
\* registered_services and not yet cached it.
StoreInit ==
    /\ now = 0
    /\ tiebreaking_attempts = [e \in Engines |-> 0]
    /\ registered_services \in
          {[e \in Engines |-> IF e = "E1" THEN reg ELSE EmptyMap] :
             reg \in {EmptyMap,
                      Put(EmptyMap, LampType,
                          <<generate_domain_name(LampType, LampName)>>)}}
    /\ ptr_records = [e \in Engines |-> EmptyMap]
    /\ non_ptr_records = [e \in Engines |-> EmptyMap]
    /\ listeners = [e \in Engines |-> <<"L1", "L2">>]
    /\ call = [e \in Engines |-> IdleCall]
    /\ inbox = [e \in Engines |-> {}]
    /\ renovate_at = [e \in Engines |-> RenovationInterval]
    /\ last = [op |-> "init"]
    /\ sent = <<>>
    /\ notes = <<>>
    /\ sent_packets = [e \in Engines |-> <<>>]
    /\ emitted = [e \in Engines |-> <<>>]
    /\ added = [e \in Engines |-> {}]
    /\ removed = [e \in Engines |-> {}]
    /\ started = [e \in Engines |-> FALSE]
    /\ delegated = <<>>
    /\ cleaning = [e \in Engines |-> IdlePass]
    /\ followed = {}
    /\ service_types = [e \in Engines |-> {}]
    /\ sock = [e \in Engines |-> FALSE]

\* _cache_service(info, force_insert), then what
\* _reconstruct_info_from_cache gives for the domain.
CacheService(e, info, force_insert) ==
    LET c == Cache(e)
        domain_name == generate_domain_name(info.type, info.name)
        r == _cache_service(c, info, force_insert)
    IN  /\ ptr_records' = [ptr_records EXCEPT ![e] = r.c.ptr]
        /\ non_ptr_records' = [non_ptr_records EXCEPT ![e] = r.c.non]
        /\ last' = [op |-> "_cache_service", engine |-> e, info |-> info,
                    force_insert |-> force_insert,
                    is_own_service |->
                        domain_name \in Range(Get(c.reg, info.type, <<>>)),
                    before |-> DetailRecords(c, domain_name),
                    reconstructed |->
                        _reconstruct_info_from_cache(e, r.c, info.type,
                                                     domain_name)]
        /\ Observe(e, <<>>, <<>>)
        /\ delegated' = <<>>
        /\ UNCHANGED <<now, tiebreaking_attempts, sock, registered_services,
                       listeners, call, inbox, renovate_at, service_types,
                       started, cleaning>>

StoreNext ==
    \E info \in LampVersions : \E force_insert \in BOOLEAN :
        CacheService("E1", info, force_insert)

StoreSpec == StoreInit /\ [][StoreNext]_vars

(***************************************************************************)
(* The TCP client.  Bytes are naturals below 256, messages are sequences   *)
(* of bytes.                                                               *)
(***************************************************************************)
\* The most addresses a request is sent to.
MaxIps == 3

LengthPrefixBytes == 4

\* message_length.to_bytes(4, byteorder="big")
to_bytes(n) ==
    <<(n \div 16777216) % 256, (n \div 65536) % 256, (n \div 256) % 256,
      n % 256>>

\* int.from_bytes(data[:4], byteorder="big")
from_bytes(b) == b[1] * 16777216 + b[2] * 65536 + b[3] * 256 + b[4]

prepare_protobuf_request(serialized_message) ==
    to_bytes(Len(serialized_message)) \o serialized_message

\* A get_protobuf_data that trusts the datagram to hold what it announces.
GetProtobufDataTrusting(data) ==
    [kind |-> "return",
     data |-> SubSeq(data, LengthPrefixBytes + 1, Len(data))]

\* What get_protobuf_data returns or raises.
get_protobuf_data(data) ==
    IF Len(data) < LengthPrefixBytes
    THEN [kind |-> "raise", error |-> "ValueError"]
    ELSE LET message_length == from_bytes(SubSeq(data, 1, LengthPrefixBytes))
         IN  IF Len(data) - LengthPrefixBytes < message_length
             THEN [kind |-> "raise", error |-> "ValueError"]
             ELSE [kind |-> "return",
                   data |-> SubSeq(data, LengthPrefixBytes + 1,
                                   LengthPrefixBytes + message_length)]

\* What the peer at one address does with a connection: open_connection
\* raises, or the connection is made and reader.read gives these bytes.
Replies ==
    {prepare_protobuf_request(<<>>), prepare_protobuf_request(<<7>>),
     prepare_protobuf_request(<<7, 8>>) \o <<9>>, <<>>, <<0, 0, 0, 2, 7>>}

Outcomes ==
    {[connect |-> err, data |-> <<>>] :
        err \in {"ConnectionRefusedError", "TimeoutError", "OSError"}}
    \cup {[connect |-> "connected", data |-> data] : data \in Replies}

AddressList == <<"10.0.0.7", "10.0.0.8", "10.0.0.9", "10.0.0.10">>

\* send_request from the i-th address on: the addresses it contacts and what
\* it returns or raises.
RECURSIVE send_request(_, _, _)
send_request(ips, outcomes, i) ==
    IF i > Len(ips)
    THEN [contacted |-> <<>>,
          result |-> [kind |-> "raise", error |-> "ConnectionError"]]
    ELSE IF outcomes[i].connect = "connected"
         THEN [contacted |-> <<ips[i]>>,
               result |-> get_protobuf_data(outcomes[i].data)]
         ELSE IF outcomes[i].connect
                   \in {"ConnectionRefusedError", "TimeoutError"}
              THEN LET rest == send_request(ips, outcomes, i + 1)
                   IN  [rest EXCEPT !.contacted = <<ips[i]>> \o @]
              ELSE [contacted |-> <<ips[i]>>,
                    result |-> [kind |-> "raise",
                                error |-> outcomes[i].connect]]

\* A host sends a request to some addresses, each of which does one of the
\* things a peer can do.
SendRequest(ips, outcomes) ==
    /\ last' = [op |-> "send_request", ips |-> ips, outcomes |-> outcomes,
                out |-> send_request(ips, outcomes, 1)]
    /\ EnginesIdle

ClientNext ==
    \E n \in 0..MaxIps : \E outcomes \in [1..n -> Outcomes] :
        SendRequest(SubSeq(AddressList, 1, n), outcomes)

ClientSpec == CodecInit /\ [][ClientNext]_vars

(***************************************************************************)
(* The health check of one descriptor.  An address is its four numbers, a  *)
(* prefix such as "172.17." is its leading numbers.                        *)
(***************************************************************************)
\* The most addresses a checked descriptor has.
MaxProbed == 2

\* The default excluded_ip_prefixes.
excluded_ip_prefixes ==
    {<<127>>, <<172, 17>>, <<172, 18>>, <<172, 19>>, <<172, 20>>, <<172, 21>>,
     <<172, 22>>}

\* address.startswith(self.excluded_ip_prefixes)
StartsWithExcluded(address) ==
    \E prefix \in excluded_ip_prefixes :
        /\ Len(prefix) <= Len(address)
        /\ SubSeq(address, 1, Len(prefix)) = prefix

\* A health check that tries the excluded addresses too.
RECURSIVE CheckAnyAddress(_, _, _)
CheckAnyAddress(info, outcomes, i) ==
    IF i > Len(info.addresses)
    THEN [alive |-> FALSE, contacted |-> <<>>]
    ELSE IF outcomes[i] = "connected"
    THEN [alive |-> TRUE, contacted |-> <<info.addresses[i]>>]
    ELSE LET rest == CheckAnyAddress(info, outcomes, i + 1)
         IN  [rest EXCEPT !.contacted = <<info.addresses[i]>> \o @]

\* The loop of _check_service_alive from the i-th address on: what it
\* returns and the addresses it tries to connect to.
RECURSIVE TryAddresses(_, _, _)
TryAddresses(info, outcomes, i) ==
    IF i > Len(info.addresses)
    THEN [alive |-> FALSE, contacted |-> <<>>]
    ELSE IF StartsWithExcluded(info.addresses[i])
    THEN TryAddresses(info, outcomes, i + 1)
    ELSE IF outcomes[i] = "connected"
    THEN [alive |-> TRUE, contacted |-> <<info.addresses[i]>>]
    ELSE LET rest == TryAddresses(info, outcomes, i + 1)
         IN  [rest EXCEPT !.contacted = <<info.addresses[i]>> \o @]

\* _check_service_alive(info) when a connection to the i-th address ends as
\* outcomes[i].
CheckServiceAlive(info, outcomes) ==
    IF info.addresses = <<>> \/ info.port = 0
    THEN [alive |-> FALSE, contacted |-> <<>>]
    ELSE IF info.protocol # TCP_PROTOCOL
    THEN [alive |-> TRUE, contacted |-> <<>>]
    ELSE TryAddresses(info, outcomes, 1)

\* A connection within health_check_timeout, or what open_connection and
\* wait_for raise (ConnectionRefusedError is an OSError).
ConnectOutcomes == {"connected", "TimeoutError", "OSError"}

ProbedAddresses == {<<127, 0, 0, 1>>, <<172, 17, 0, 2>>, <<172, 23, 0, 1>>}

\* The parts of a descriptor the health check reads.
ProbedInfos ==
    LET udp == EnumValue(TransportProtocolNames, "UDP_PROTOCOL")
    IN  {info \in UNION {[addresses : [1..n -> ProbedAddresses],
                          port : {0, 4321},
                          protocol : {TCP_PROTOCOL, udp}] :
                          n \in 0..MaxProbed} :
            info.port = 0 => info.protocol = udp}

\* The cleanup loop checks one descriptor.
CheckAlive(info, outcomes) ==
    /\ last' = [op |-> "_check_service_alive", info |-> info,
                outcomes |-> outcomes,
                out |-> CheckServiceAlive(info, outcomes)]
    /\ EnginesIdle

AliveNext ==
    \E info \in ProbedInfos :
        \E outcomes \in [1..Len(info.addresses) -> ConnectOutcomes] :
            CheckAlive(info, outcomes)

AliveSpec == CodecInit /\ [][AliveNext]_vars

(***************************************************************************)
(* One engine while time passes and its cleanup loop runs.                 *)
(***************************************************************************)
\* An engine built with tiebreaking_attempts = 0 claims a name at once.
SweepInit ==
    /\ Init
    /\ tiebreaking_attempts["E1"] = 0

SweepNext ==
    \/ \E e \in Solo : \E info \in LampInfos(e) :
            info.allow_name_change /\ RegisterCall(e, info)
    \/ \E e \in Solo : RegisterWake(e)
    \/ \E e \in Solo : RegisterEnd(e)
    \/ \E e \in Solo : \E info \in LampInfos(e) :
            info.allow_name_change /\ Unregister(e, info)
    \/ \E e \in Solo : RecvTimed(e)
    \/ \E e \in Solo : Renovate(e)
    \/ \E e \in Solo : Cleanup(e)
    \/ Tick

SweepSpec == SweepInit /\ [][SweepNext]_vars

\* The same engine with the pass of its cleanup loop in its two parts, so
\* that the host and the network act while the health checks are awaited.
PassNext ==
    \/ \E e \in Solo : \E info \in LampInfos(e) :
            info.allow_name_change /\ RegisterCall(e, info)
    \/ \E e \in Solo : RegisterWake(e)
    \/ \E e \in Solo : RegisterEnd(e)
    \/ \E e \in Solo : RecvTimed(e)
    \/ \E e \in Solo : Renovate(e)
    \/ \E e \in Solo : CleanupCollect(e)
    \/ \E e \in Solo : CleanupResume(e)
    \/ Tick

PassSpec == SweepInit /\ [][PassNext]_vars

\* The same, the removals its listeners were told being followed.
ToldInit ==
    /\ InitCommon
    /\ followed = {"removed"}
    /\ service_types = [e \in Engines |-> {}]
    /\ sock = [e \in Engines |-> e \in Solo]
    /\ tiebreaking_attempts = [e \in Engines |-> 0]

ToldSpec == ToldInit /\ [][PassNext]_vars

(***************************************************************************)
(* One engine and the bytes of the datagrams it receives.                  *)
(***************************************************************************)
\* The envelopes on the network; the serialized form of the i-th is the one
\* byte i.  The last has neither a query nor a response.
Envelopes ==
    <<_query_service(LampType)[1], _broadcast_service(RemoteLamp)[1],
      GoodbyePtr(RemoteLamp), [data |-> "none"]>>

\* packet.ParseFromString(proto_bytes): the envelope, or DecodeError.  No
\* bytes are the envelope with nothing set.
ParseFromString(proto_bytes) ==
    IF proto_bytes = <<>>
    THEN [kind |-> "return", packet |-> [data |-> "none"]]
    ELSE IF Len(proto_bytes) = 1 /\ proto_bytes[1] \in 1..Len(Envelopes)
         THEN [kind |-> "return", packet |-> Envelopes[proto_bytes[1]]]
         ELSE [kind |-> "raise", error |-> "DecodeError"]

\* The datagrams other hosts send: well formed ones, one with bytes after
\* its message, and ones that are too short, announce more than they hold,
\* do not parse, or hold an envelope with nothing set.
WireDatagrams ==
    {prepare_protobuf_request(<<i>>) : i \in 1..4}
    \cup {prepare_protobuf_request(<<2>>) \o <<9>>,
          <<>>, <<0, 0, 1>>, to_bytes(2) \o <<1>>, to_bytes(3) \o <<2, 9>>,
          prepare_protobuf_request(<<255>>),
          prepare_protobuf_request(<<1, 2>>),
          prepare_protobuf_request(<<>>)}

\* _recv_loop takes the bytes data off the socket and _handle_packet unframes,
\* parses and dispatches them; what it raises is logged.
RecvBytes(e, data) ==
    /\ sock[e]
    /\ LET framed == get_protobuf_data(data)
           parsed == IF framed.kind = "return"
                     THEN ParseFromString(framed.data)
                     ELSE framed
           payload_type == IF parsed.kind = "return" THEN parsed.packet.data
                           ELSE "none"
       IN  /\ IF payload_type = "query_request"
              THEN LET reply == _handle_query(Cache(e), parsed.packet)
                   IN  /\ SetCache(e, Cache(e))
                       /\ Emit(e, reply, <<>>)
                       /\ inbox' = Multicast(e, _send_packet(e, reply))
              ELSE IF payload_type = "query_response"
              THEN LET st == _handle_response(e, Cache(e), parsed.packet)
                   IN  /\ SetCache(e, st.c)
                       /\ Emit(e, <<>>, st.notes)
                       /\ inbox' = inbox
              ELSE /\ SetCache(e, Cache(e))
                   /\ Emit(e, <<>>, <<>>)
                   /\ inbox' = inbox
           /\ last' = [op |-> "datagram", engine |-> e, data |-> data,
                       dispatched |-> payload_type # "none",
                       after_undispatched |->
                            (last.op = "datagram" /\ ~last.dispatched)]
    /\ UNCHANGED <<now, tiebreaking_attempts, sock, listeners, call,
                   renovate_at>>

WireNext ==
    \/ \E e \in Solo : \E info \in LampInfos(e) :
            info.allow_name_change /\ RegisterCall(e, info)
    \/ \E e \in Solo : RegisterWake(e)
    \/ \E e \in Solo : RegisterEnd(e)
    \/ \E e \in Solo : \E data \in WireDatagrams : RecvBytes(e, data)

WireSpec == SweepInit /\ [][WireNext]_vars

(***************************************************************************)
(* One engine whose host registers, updates, unregisters and closes, and   *)
(* what its listeners have been told.                                      *)
(***************************************************************************)
OpsDatagrams ==
    {_broadcast_service(i)[1] : i \in {Kitchen("false"), RemoteLamp}}
    \cup {GoodbyePtr(RemoteLamp)}

RecvOps(e) == \E packet \in OpsDatagrams : HandlePacket(e, packet)

OpsInit ==
    /\ InitCommon
    /\ followed = {"added"}
    /\ service_types = [e \in Engines |-> {}]
    /\ sock = [e \in Engines |-> e \in Solo]
    /\ tiebreaking_attempts["E2"] = 0

OpsNext ==
    \/ \E e \in Solo : \E info \in LampInfos(e) : RegisterCall(e, info)
    \/ \E e \in Solo : RegisterWake(e)
    \/ \E e \in Solo : TiebreakWake(e)
    \/ \E e \in Solo : RegisterEnd(e)
    \/ \E e \in Solo : \E info \in OpsInfos(e) : Unregister(e, info)
    \/ \E e \in Solo : \E info \in OpsInfos(e) : Update(e, info)
    \/ \E e \in Solo : Close(e)
    \/ \E e \in Solo : RecvOps(e)

OpsSpec == OpsInit /\ [][OpsNext]_vars

(***************************************************************************)
(* One engine whose host closes it, no call pending, and goes on calling    *)
(* it.  While the socket is open the host stops after MaxOpenSends         *)
(* datagrams.                                                              *)
(***************************************************************************)
MaySend(e) == ~sock[e] \/ Len(emitted[e]) < MaxOpenSends

\* The host registers, unregisters and registers again.
AgainNext ==
    \/ \E e \in Solo : \E info \in LampInfos(e) : RegisterCall(e, info)
    \/ \E e \in Solo : RegisterWake(e)
    \/ \E e \in Solo : TiebreakWake(e)
    \/ \E e \in Solo : RegisterEnd(e)
    \/ \E e \in Solo : \E info \in LampInfos(e) : Unregister(e, info)
    \/ \E e \in Solo : RegisterAgain(e)
    \/ \E e \in Solo : RecvOps(e)

AgainSpec == OpsInit /\ [][AgainNext]_vars

ClosedInit ==
    /\ InitCommon
    /\ followed = {"sent_packets"}
    /\ service_types = [e \in Engines |-> {}]
    /\ sock = [e \in Engines |-> e \in Solo]
    /\ tiebreaking_attempts["E2"] = 0
    /\ tiebreaking_attempts["E1"] <= 1

ClosedNext ==
    \/ \E e \in Solo : \E info \in LampInfos(e) :
            MaySend(e) /\ RegisterCall(e, info)
    \/ \E e \in Solo : RegisterWake(e)
    \/ \E e \in Solo : TiebreakWake(e)
    \/ \E e \in Solo : RegisterEnd(e)
    \/ \E e \in Solo : \E info \in OpsInfos(e) :
            MaySend(e) /\ Unregister(e, info)
    \/ \E e \in Solo : \E info \in OpsInfos(e) :
            MaySend(e) /\ Update(e, info)
    \/ \E e \in Solo : call[e].pc = "idle" /\ Close(e)
    \/ \E e \in Solo : MaySend(e) /\ RecvOps(e)

ClosedSpec == ClosedInit /\ [][ClosedNext]_vars

(***************************************************************************)
(* One engine whose host registers names it does not own and may cancel    *)
(* the call while it sleeps.  The datagrams it has sent are followed.      *)
(***************************************************************************)
CancelNext ==
    \/ \E e \in Solo : \E info \in LocalInfos(e) :
            /\ Len(emitted[e]) < MaxOpenSends
            /\ ~IsRegistered(Cache(e), info)
            /\ RegisterCall(e, info)
    \/ \E e \in Solo : RegisterWake(e)
    \/ \E e \in Solo : TiebreakWake(e)
    \/ \E e \in Solo : RegisterEnd(e)
    \/ \E e \in Solo : Cancel(e)
    \/ \E e \in Solo : RecvWhileProbing(e)

CancelSpec == EchoInit /\ [][CancelNext]_vars

(***************************************************************************)
(* One engine with a browser that its host starts at some moment.          *)
(***************************************************************************)
\* What a browser may be subscribed to.
Subscriptions ==
    {{LampType}, {SERVICE_DISCOVERY_TYPE}, {SinkType, SERVICE_DISCOVERY_TYPE},
     {}}

BrowseInit ==
    /\ InitCommon
    /\ followed = {}
    /\ service_types \in [Engines -> Subscriptions]
    /\ service_types["E2"] = {}
    /\ sock = [e \in Engines |-> e \in Solo]
    /\ tiebreaking_attempts = [e \in Engines |-> 0]

BrowseNext ==
    \/ \E e \in Solo : BrowserStart(e)
    \/ \E e \in Solo : \E info \in LampInfos(e) :
            info.allow_name_change /\ RegisterCall(e, info)
    \/ \E e \in Solo : RegisterWake(e)
    \/ \E e \in Solo : RegisterEnd(e)
    \/ \E e \in Solo : \E info \in OpsInfos(e) : Unregister(e, info)
    \/ \E e \in Solo : \E info \in OpsInfos(e) : Update(e, info)
    \/ \E e \in Solo : RecvOps(e)

BrowseSpec == BrowseInit /\ [][BrowseNext]_vars

(***************************************************************************)
(* One engine while time passes.                                           *)
(***************************************************************************)
TimedNext ==
    \/ \E e \in Solo : \E info \in LampInfos(e) :
            info.allow_name_change /\ RegisterCall(e, info)
    \/ \E e \in Solo : RegisterWake(e)
    \/ \E e \in Solo : TiebreakWake(e)
    \/ \E e \in Solo : RegisterEnd(e)
    \/ \E e \in Solo : RecvTimed(e)
    \/ \E e \in Solo : Renovate(e)
    \/ Tick

TimedSpec == Init /\ [][TimedNext]_vars

(***************************************************************************)
(* Two engines on one network.                                             *)
(***************************************************************************)
\* Both engines are started, and both probe before they claim a name.
FabricInit ==
    /\ InitCommon
    /\ followed = {}
    /\ service_types = [e \in Engines |-> {}]
    /\ sock = [e \in Engines |-> TRUE]
    /\ \A e \in Engines : tiebreaking_attempts[e] >= 1

FabricNext ==
    \/ \E e \in Engines : \E info \in LampInfos(e) :
            Owned(e) = <<>> /\ RegisterCall(e, info)
    \/ \E e \in Engines : RegisterWake(e)
    \/ \E e \in Engines : TiebreakWake(e)
    \/ \E e \in Engines : RegisterEnd(e)
    \/ \E e \in Engines : RecvFromNet(e)

FabricSpec == FabricInit /\ [][FabricNext]_vars

(***************************************************************************)
(* Two engines that register the same name one after the other.  E2 is     *)
(* started at some moment and calls register_service once E1 owns the      *)
(* name; a call goes on from its sleep only when every datagram sent has   *)
(* been handled.                                                           *)
(***************************************************************************)
Quiet == \A e \in Engines : inbox[e] = {}

Settled(e, info) ==
    /\ call[e].pc = "idle"
    /\ IsRegistered(Cache(e), info)
    /\ generate_domain_name(info.type, info.name)
            \in DOMAIN Get(ptr_records[e], info.type, EmptyMap)

TurnInit ==
    /\ InitCommon
    /\ followed = {}
    /\ service_types = [e \in Engines |-> {}]
    /\ sock = [e \in Engines |-> e \in Solo]
    /\ \A e \in Engines : tiebreaking_attempts[e] >= 1

TurnNext ==
    \/ \E e \in Solo : \E info \in LampInfos(e) :
            Owned(e) = <<>> /\ RegisterCall(e, info)
    \/ \E e \in Engines \ Solo : Start(e)
    \/ \E e \in Engines \ Solo : \E info \in LampInfos(e) :
            /\ sock[e]
            /\ Owned(e) = <<>>
            /\ \E a \in Solo : \E held \in LampInfos(a) : Settled(a, held)
            /\ RegisterCall(e, info)
    \/ \E e \in Engines : Quiet /\ RegisterWake(e)
    \/ \E e \in Engines : Quiet /\ TiebreakWake(e)
    \/ \E e \in Engines : RegisterEnd(e)
    \/ \E e \in Engines : RecvFromNet(e)

TurnSpec == TurnInit /\ [][TurnNext]_vars

(***************************************************************************)
(* An engine that registers names it does not own yet, and a second one    *)
(* that joins later: its browser starts it.  _recv_loop of either engine   *)
(* takes every datagram off its socket in the end.                         *)
(***************************************************************************)
JoinInit ==
    /\ InitCommon
    /\ followed = {}
    /\ service_types \in [Engines -> Subscriptions]
    /\ service_types["E1"] = {}
    /\ sock = [e \in Engines |-> e \in Solo]
    /\ tiebreaking_attempts["E2"] = 0

JoinNext ==
    \/ \E e \in Solo : \E info \in LocalInfos(e) :
            ~IsRegistered(Cache(e), info) /\ RegisterCall(e, info)
    \/ \E e \in Solo : RegisterWake(e)
    \/ \E e \in Solo : TiebreakWake(e)
    \/ \E e \in Solo : RegisterEnd(e)
    \/ \E e \in Engines \ Solo : BrowserStart(e)
    \/ \E e \in Engines : RecvFromNet(e)

\* The step of JoinNext in which _recv_loop of engine e takes a datagram off
\* its socket: the steps of RecvFromNet(e), told by what they leave in last.
Receives(e) ==
    /\ sock[e]
    /\ \E packet \in inbox[e] :
          last' = [op |-> "recv", engine |-> e, packet |-> packet]

\* _recv_loop awaits the socket in a loop of its own task: a datagram that
\* waits is taken in the end.
JoinSpec ==
    /\ JoinInit
    /\ [][JoinNext]_vars
    /\ \A e \in Engines : WF_last(Receives(e))

(***************************************************************************)
(* What is checked.                                                        *)
(***************************************************************************)
InPtr(c, t, d) == t \in DOMAIN c.ptr /\ d \in DOMAIN c.ptr[t]

OwnedBy(e, t, d) == d \in Range(Get(registered_services[e], t, <<>>))

\* C1: no (service type, domain) is in registered_services of two engines at
\* the same time, whatever the interleaving of their registrations.
C1_NameUniqueAcrossFabric ==
    \A e1 \in Engines : \A e2 \in Engines \ {e1} :
        \A t \in DOMAIN registered_services[e1] :
            \A d \in Range(registered_services[e1][t]) : ~OwnedBy(e2, t, d)

\* C2: every (service type, domain) in registered_services has a pointer
\* entry in the pointer index, whatever datagrams have been received.
C2_OwnedHasPointer ==
    \A e \in Engines : \A t \in DOMAIN registered_services[e] :
        \A d \in Range(registered_services[e][t]) : InPtr(Cache(e), t, d)

\* C3: the pointer entry of a locally owned (service type, domain) is never
\* expired in the owner's cache, however much time passes.
C3_OwnedNeverExpired ==
    \A e \in Engines : \A t \in DOMAIN registered_services[e] :
        \A d \in Range(registered_services[e][t]) :
            InPtr(Cache(e), t, d) => ~expired(ptr_records[e][t][d])

\* The step is the wake-up of register_service on engine e from its first
\* sleep, and the cache then holds a live pointer for the requested name.
WakesOnConflict(e) ==
    /\ call[e].pc = "delay"
    /\ last'.op = "register_wake"
    /\ last'.engine = e
    /\ tiebreaking_attempts[e] >= 1
    /\ _is_service_defined(Cache(e), call[e].info.type, call[e].info.name)

\* C4: on an engine that probes at least once, register_service with
\* allow_name_change = false and a live pointer for the candidate domain in
\* the cache fails, emits no packet, and leaves the pointer index, the detail
\* index and registered_services exactly as they were.
C4_ForbiddenRenameLeavesCache ==
    [][\A e \in Engines :
        (WakesOnConflict(e) /\ ~call[e].info.allow_name_change)
        => (/\ call'[e].pc = "failed"
            /\ sent' = <<>>
            /\ registered_services'[e] = registered_services[e]
            /\ ptr_records'[e] = ptr_records[e]
            /\ non_ptr_records'[e] = non_ptr_records[e])]_vars

\* <base> as the specification words it: the instance name without a
\* trailing "-N", and whole when it has no such suffix.
IsNumeral(token) == \E k \in 0..(FirstInstanceNum + MaxOwned + MaxAttempts) : token = ToString(k)

StrippedBase(name) ==
    IF Len(name) >= 3 /\ name[Len(name) - 1] = Hyphen /\ IsNumeral(name[Len(name)])
    THEN SubSeq(name, 1, Len(name) - 2)
    ELSE name

\* The smallest k >= 2 for which "<base>-k" has no live pointer in cache c.
SmallestFree(c, type_, base) ==
    LET top == FirstInstanceNum + Cardinality(DOMAIN Get(c.ptr, type_, EmptyMap))
        free(k) == ~_is_service_defined(c, type_, base \o <<Hyphen, ToString(k)>>)
    IN  CHOOSE k \in FirstInstanceNum..top :
            free(k) /\ \A j \in FirstInstanceNum..(k - 1) : ~free(j)

\* The response _broadcast_service sends for the descriptor of the call.
Announced(e, info) ==
    \E i \in 1..Len(sent') :
        /\ sent'[i].engine = e
        /\ sent'[i].packet.data = "query_response"
        /\ sent'[i].packet.answers =
             <<PtrRecord(info.type, info.ttl,
                         generate_domain_name(info.type, info.name))>>

\* C5: on an engine that probes at least once, register_service with
\* allow_name_change = true and a live pointer for the candidate domain in
\* the cache renames the descriptor to "<base>-k" with k the smallest integer
\* >= 2 whose name has no live pointer, and what it then records in
\* registered_services, caches and announces is the renamed domain.
C5_RenameToSmallestFree ==
    [][\A e \in Engines :
        /\ (WakesOnConflict(e) /\ call[e].info.allow_name_change)
           => call'[e].info.name =
                StrippedBase(call[e].info.name)
                \o <<Hyphen, ToString(SmallestFree(Cache(e), call[e].info.type,
                                        StrippedBase(call[e].info.name)))>>
        /\ (call[e].pc \in {"delay", "probe"} /\ call'[e].pc = "done"
            /\ call'[e].renames > 0)
           => LET info == call'[e].info
                  d == generate_domain_name(info.type, info.name)
              IN  /\ info.name # call'[e].requested
                  /\ d \in Range(Get(registered_services'[e], info.type, <<>>))
                  /\ info.type \in DOMAIN ptr_records'[e]
                  /\ d \in DOMAIN ptr_records'[e][info.type]
                  /\ Announced(e, info)]_vars

\* How many times x occurs in the sequence s.
Count(s, x) == Cardinality({i \in 1..Len(s) : s[i] = x})

\* C6: when register_service returns without having met a conflict,
\* registered_services[type] holds the descriptor's domain exactly once, the
\* pointer index holds a live pointer for it, and a response whose answer is
\* that pointer has been sent.
C6_CleanRegistrationRecordedOnce ==
    [][\A e \in Engines :
        (/\ call[e].pc \in {"delay", "probe"}
         /\ call'[e].pc = "done"
         /\ call'[e].renames = 0
         /\ ~_is_service_defined(Cache(e), call[e].info.type, call[e].info.name))
        => LET info == call'[e].info
               d == generate_domain_name(info.type, info.name)
           IN  /\ Count(Get(registered_services'[e], info.type, <<>>), d) = 1
               /\ info.type \in DOMAIN ptr_records'[e]
               /\ d \in DOMAIN ptr_records'[e][info.type]
               /\ ~expired(ptr_records'[e][info.type][d])
               /\ Announced(e, info)]_vars

\* The probe queries for the type of the call of e among the packets of a step.
ProbesSent(e) ==
    Cardinality({i \in 1..Len(sent') :
        /\ sent'[i].engine = e
        /\ sent'[i].packet = _query_service(call'[e].info.type)[1]})

\* C7: register_service ends; when it claims a name, the name has passed
\* tiebreaking_attempts consecutive conflict-free probes since the last
\* rename (the attempt counter restarted there), and a call that met no
\* conflict has sent exactly tiebreaking_attempts probe queries for the type,
\* one in each step that counts a probe.
C7_TiebreakingTerminates ==
    /\ [](\A e \in Engines :
            call[e].pc = "done"
            => /\ call[e].current_attempt = tiebreaking_attempts[e]
               /\ call[e].clean = tiebreaking_attempts[e]
               /\ call[e].renames = 0
                  => call[e].probes = tiebreaking_attempts[e])
    /\ [][\A e \in Engines :
            (sock[e] /\ call[e].pc \in {"delay", "probe"}
             /\ call'[e].pc \in {"probe", "done", "failed"} /\ call'[e] # call[e])
            => ProbesSent(e) = call'[e].probes - call[e].probes]_vars
    /\ \A e \in Solo :
            (call[e].pc = "delay") ~> (call[e].pc \in {"done", "failed"})

\* A name is claimed after a rename that came after a first clean probe.
C7_ClaimedAfterRestart ==
    \E e \in Engines :
        /\ call[e].pc = "done"
        /\ call[e].renames > 0
        /\ tiebreaking_attempts[e] > 1
        /\ call[e].probes > tiebreaking_attempts[e]

\* The step is engine e handling the response last'.packet.
HandlesResponse(e) ==
    /\ last'.op = "recv"
    /\ last'.engine = e
    /\ last'.packet.data = "query_response"

PacketRecords(packet) == packet.answers \o packet.additional_records

\* The callbacks of a step to listener l of engine e for (type_, domain).
Notified(e, l, event, type_, domain) ==
    Cardinality({i \in 1..Len(notes') :
        /\ notes'[i].engine = e
        /\ notes'[i].listener = l
        /\ notes'[i].event = event
        /\ notes'[i].info.type = type_
        /\ generate_domain_name(notes'[i].info.type, notes'[i].info.name) = domain})

\* C8: a received response with a pointer of TTL > 0 for a (type, domain)
\* that the engine does not own gives every listener exactly one add_service
\* when the pair is not in the cache, and update_service without any
\* add_service when the pair is still cached.
C8_AddOnceThenUpdate ==
    [][\A e \in Engines :
        HandlesResponse(e)
        => \A i \in 1..Len(PacketRecords(last'.packet)) :
            LET r == PacketRecords(last'.packet)[i]
            IN  (r.field = "ptr_record" /\ r.ttl > 0
                 /\ ~OwnedBy(e, r.name, r.domain_name))
                => \A l \in Range(listeners[e]) :
                    IF InPtr(Cache(e), r.name, r.domain_name)
                    THEN /\ Notified(e, l, "add_service", r.name, r.domain_name) = 0
                         /\ Notified(e, l, "update_service", r.name, r.domain_name) >= 1
                    ELSE Notified(e, l, "add_service", r.name, r.domain_name) = 1]_vars

\* A further response for the cached kitchen sink has produced update_service.
C8_UpdateAfterAdd ==
    /\ last.op = "recv"
    /\ last.packet.data = "query_response"
    /\ \E i \in 1..Len(notes) :
        /\ notes[i].event = "update_service"
        /\ notes[i].info.name = KitchenName
    /\ \A i \in 1..Len(notes) : notes[i].event # "add_service"

\* C9: a received response with a pointer of TTL 0 for a (type, domain) in
\* the cache gives every listener exactly one remove_service, whose
\* descriptor is the one reconstructed from the cache before the removal, and
\* afterwards neither the pointer index nor the detail index holds the domain.
C9_GoodbyeRemovesAndNotifies ==
    [][\A e \in Engines :
        HandlesResponse(e)
        => \A i \in 1..Len(PacketRecords(last'.packet)) :
            LET r == PacketRecords(last'.packet)[i]
                before == _reconstruct_info_from_cache(e, Cache(e), r.name,
                                                       r.domain_name)
            IN  (r.field = "ptr_record" /\ r.ttl = 0
                 /\ InPtr(Cache(e), r.name, r.domain_name))
                => /\ before # <<>>
                   /\ \A l \in Range(listeners[e]) :
                        /\ Notified(e, l, "remove_service", r.name, r.domain_name) = 1
                        /\ Cardinality({j \in 1..Len(notes') :
                                /\ notes'[j].listener = l
                                /\ notes'[j].event = "remove_service"
                                /\ notes'[j].info = before[1]}) = 1
                   /\ ~(r.name \in DOMAIN ptr_records'[e]
                        /\ r.domain_name \in DOMAIN ptr_records'[e][r.name])
                   /\ r.domain_name \notin DOMAIN non_ptr_records'[e]]_vars

\* The goodbye of the kitchen sink has told a listener its port, address and
\* properties, and the sink is gone from the cache.
C9_KitchenRemoved ==
    /\ last.op = "recv"
    /\ \E i \in 1..Len(notes) :
        /\ notes[i].event = "remove_service"
        /\ notes[i].info.name = KitchenName
        /\ notes[i].info.port = Kitchen("true").port
        /\ notes[i].info.addresses = Kitchen("true").addresses
        /\ notes[i].info.properties.is_on = "true"
    /\ \A e \in Engines : ~InPtr(Cache(e), SinkType,
                                 generate_domain_name(SinkType, KitchenName))

\* Record r names nothing that cache c holds.
NamesAbsent(c, r) ==
    IF r.field = "ptr_record" THEN ~InPtr(c, r.name, r.domain_name)
    ELSE /\ r.name \notin DOMAIN c.non
         /\ \A t \in DOMAIN c.ptr : r.name \notin DOMAIN c.ptr[t]

\* Every record of the packet has TTL 0 and names nothing that c holds.
GoodbyeOfUnknown(c, packet) ==
    /\ packet.data = "query_response"
    /\ \A i \in 1..Len(PacketRecords(packet)) :
        /\ PacketRecords(packet)[i].ttl = 0
        /\ NamesAbsent(c, PacketRecords(packet)[i])

\* C10: a received response whose records all have TTL 0 and name only
\* (type, domain) pairs absent from the cache makes no callback and leaves the
\* pointer index, the detail index and registered_services unchanged.
C10_UnknownGoodbyeIsNoop ==
    [][\A e \in Engines :
        (HandlesResponse(e) /\ GoodbyeOfUnknown(Cache(e), last'.packet))
        => /\ notes' = <<>>
           /\ registered_services' = registered_services
           /\ ptr_records' = ptr_records
           /\ non_ptr_records' = non_ptr_records]_vars

\* A full goodbye of a sink the engine never cached has been handled by an
\* engine whose cache holds something else.
C10_UnknownGoodbyeHandled ==
    /\ last.op = "recv"
    /\ GoodbyeOfUnknown(Cache(last.engine), last.packet)
    /\ Len(PacketRecords(last.packet)) > 1
    /\ notes = <<>>
    /\ ptr_records[last.engine] # EmptyMap

\* C11: a datagram whose bytes equal one of sent_packets is dropped by the
\* receive loop: no callback, no cache change, no reply; and sent_packets
\* never holds more than 50 entries and holds the most recently sent ones.
C11_SelfEchoDropped ==
    /\ [][\A e \in Engines : \A data \in Range(sent_packets[e]) :
            RecvLoop(e, data)
            => /\ notes' = <<>>
               /\ sent' = <<>>
               /\ registered_services' = registered_services
               /\ ptr_records' = ptr_records
               /\ non_ptr_records' = non_ptr_records]_vars
    /\ [](\A e \in Engines :
            /\ Len(sent_packets[e]) <= SentPacketsMaxlen
            /\ Len(sent_packets[e]) <= Len(emitted[e])
            /\ Len(emitted[e]) >= SentPacketsMaxlen
               => Len(sent_packets[e]) = SentPacketsMaxlen
            /\ \A i \in 1..Len(sent_packets[e]) :
                sent_packets[e][i] =
                    emitted[e][Len(emitted[e]) - Len(sent_packets[e]) + i])

\* The engine has dropped its own announcement after it had sent more than
\* 50 datagrams, the oldest of which sent_packets has let go.
C11_EchoDroppedAfterEviction ==
    /\ last.op = "echo"
    /\ last.data.packet.data = "query_response"
    /\ Len(emitted[last.engine]) > SentPacketsMaxlen
    /\ Len(sent_packets[last.engine]) = SentPacketsMaxlen
    /\ \A i \in 1..Len(sent_packets[last.engine]) :
        sent_packets[last.engine][i] # emitted[last.engine][1]

\* C12: a listener is told update_service for a (type, domain) only after it
\* has been told add_service for it, whether the update comes from a received
\* response or from the local update_service.
C12_UpdateOnlyAfterAdd ==
    [][\A i \in 1..Len(notes') :
        notes'[i].event = "update_service"
        => LET n == notes'[i]
               d == generate_domain_name(n.info.type, n.info.name)
           IN  \/ <<n.listener, n.info.type, d>> \in added[n.engine]
               \/ \E j \in 1..(i - 1) :
                    /\ notes'[j].event = "add_service"
                    /\ notes'[j].listener = n.listener
                    /\ notes'[j].info.type = n.info.type
                    /\ generate_domain_name(notes'[j].info.type,
                                            notes'[j].info.name) = d]_vars

\* C13: when a (type, domain) leaves the cache by a goodbye, by a cleanup pass
\* or by unregister_service, the pointer is still in the cache at the moment
\* a listener's remove_service runs.
C13_RemoveToldBeforeGone ==
    [][\A i \in 1..Len(notes') :
        notes'[i].event = "remove_service" => notes'[i].present]_vars

\* A response of engine e all of whose records have TTL 0 and whose pointer
\* names the domain.
IsGoodbyeFor(m, e, type, domain) ==
    /\ m.engine = e
    /\ m.packet.data = "query_response"
    /\ Len(m.packet.answers) = 1
    /\ m.packet.answers[1].field = "ptr_record"
    /\ m.packet.answers[1].name = type
    /\ m.packet.answers[1].domain_name = domain
    /\ \A i \in 1..Len(m.packet.answers) : m.packet.answers[i].ttl = 0
    /\ \A i \in 1..Len(m.packet.additional_records) :
            m.packet.additional_records[i].ttl = 0

\* C14: close() on a started engine sends one goodbye, a response whose
\* pointer and additional records have TTL 0, for every (type, domain) in
\* registered_services, while the socket is still open.
C14_CloseSaysGoodbyeToAll ==
    [][(last'.op = "close" /\ last'.open)
       => \A type \in DOMAIN registered_services[last'.engine] :
            \A domain \in Range(registered_services[last'.engine][type]) :
                Cardinality({i \in 1..Len(sent') :
                    IsGoodbyeFor(sent'[i], last'.engine, type, domain)}) = 1]_vars

\* The steps of the host's calls on engine e.
HostStep(e) ==
    /\ last'.op \in {"close", "register_service", "register_wake",
                     "tiebreak_wake", "update_service", "unregister_service"}
    /\ last'.engine = e

\* The step is one in which register_service raises.
RegisterRaises(e) == call[e].pc # "failed" /\ call'[e].pc = "failed"

Told(listener, event, info) ==
    Cardinality({i \in 1..Len(notes') :
        /\ notes'[i].listener = listener
        /\ notes'[i].event = event
        /\ notes'[i].info.type = info.type
        /\ notes'[i].info.name = info.name})

\* C16: unregister_service on an owned descriptor of a started engine
\* broadcasts one goodbye with every TTL 0; afterwards the domain is in
\* neither registered_services, the pointer index nor the detail index, every
\* listener has got exactly one remove_service for it, and a type left without
\* an owned domain is no key of registered_services.
C16_UnregisterRemovesOwned ==
    [][\A e \in Solo :
        (/\ last'.op = "unregister_service"
         /\ last'.engine = e
         /\ sock[e]
         /\ IsRegistered(Cache(e), last'.info))
        => LET info == last'.info
               domain == generate_domain_name(info.type, info.name)
           IN  /\ Len(sent') = 1
               /\ IsGoodbyeFor(sent'[1], e, info.type, domain)
               /\ domain \notin Range(Get(registered_services'[e],
                                          info.type, <<>>))
               /\ domain \notin DOMAIN Get(ptr_records'[e], info.type,
                                           EmptyMap)
               /\ domain \notin DOMAIN non_ptr_records'[e]
               /\ \A l \in Range(listeners[e]) :
                    Told(l, "remove_service", info) = 1
               /\ info.type \in DOMAIN registered_services'[e]
                    => registered_services'[e][info.type] # <<>>]_vars

\* C17: unregister_service and update_service with a descriptor whose
\* (type, domain) is not in registered_services send nothing, notify nobody
\* and leave registered_services, the pointers and the details as they were,
\* also when the cache holds another host's entry of that domain.
C17_UnownedIsNoOp ==
    [][\A e \in Solo :
        (/\ last'.op \in {"unregister_service", "update_service"}
         /\ last'.engine = e
         /\ ~IsRegistered(Cache(e), last'.info))
        => /\ sent' = <<>>
           /\ notes' = <<>>
           /\ inbox' = inbox
           /\ registered_services'[e] = registered_services[e]
           /\ ptr_records'[e] = ptr_records[e]
           /\ non_ptr_records'[e] = non_ptr_records[e]]_vars

\* unregister_service has run for a lamp the engine does not own while the
\* cache holds the lamp of another host under the same domain.
C17_UnownedUnregisterOfCached ==
    \E e \in Solo :
        /\ last.op = "unregister_service"
        /\ last.engine = e
        /\ ~IsRegistered(Cache(e), last.info)
        /\ sock[e]
        /\ generate_domain_name(last.info.type, last.info.name)
                \in DOMAIN Get(ptr_records[e], last.info.type, EmptyMap)
        /\ generate_domain_name(last.info.type, last.info.name)
                \in DOMAIN non_ptr_records[e]

\* C18: update_service on an owned descriptor of a started engine makes the
\* pointer and the details cached for its domain those of the descriptor
\* (its port, addresses and properties), sends one announcement that carries
\* them, gives every listener exactly one update_service, and leaves
\* registered_services and the cache entries of every other domain alone.
C18_UpdateRewritesOwned ==
    [][\A e \in Solo :
        (/\ last'.op = "update_service"
         /\ last'.engine = e
         /\ sock[e]
         /\ IsRegistered(Cache(e), last'.info))
        => LET info == last'.info
               domain == generate_domain_name(info.type, info.name)
               records == to_records(info)
           IN  /\ ptr_records'[e][info.type][domain].record = records[1]
               /\ DetailRecords(Cache(e)', domain) = Tail(records)
               /\ sent' = <<[engine |-> e,
                             packet |-> MDNSQueryResponse(<<records[1]>>,
                                                          Tail(records))]>>
               /\ Len(notes') = Len(listeners[e])
               /\ \A l \in Range(listeners[e]) :
                    Told(l, "update_service", info) = 1
               /\ registered_services'[e] = registered_services[e]
               /\ \A d \in DOMAIN non_ptr_records[e] \cup
                           DOMAIN non_ptr_records'[e] :
                    d # domain
                    => /\ d \in DOMAIN non_ptr_records[e]
                       /\ d \in DOMAIN non_ptr_records'[e]
                       /\ non_ptr_records'[e][d] = non_ptr_records[e][d]
               /\ \A t \in DOMAIN ptr_records[e] \cup DOMAIN ptr_records'[e] :
                    \A d \in DOMAIN Get(ptr_records[e], t, EmptyMap) \cup
                              DOMAIN Get(ptr_records'[e], t, EmptyMap) :
                        d # domain
                        => /\ d \in DOMAIN Get(ptr_records[e], t, EmptyMap)
                           /\ d \in DOMAIN Get(ptr_records'[e], t, EmptyMap)
                           /\ ptr_records'[e][t][d] = ptr_records[e][t][d]]_vars

\* update_service has switched the owned lamp on while the cache also holds
\* the sink of another host: the cached text record of the lamp says so.
C18_LampSwitchedOn ==
    \E e \in Solo :
        /\ last.op = "update_service"
        /\ last.engine = e
        /\ sock[e]
        /\ last.info = LampOn(e)
        /\ IsRegistered(Cache(e), last.info)
        /\ Len(sent) = 1
        /\ Len(notes) = 2
        /\ SinkType \in DOMAIN ptr_records[e]
        /\ DetailRecords(Cache(e), generate_domain_name(LampType, LampName))
                = Tail(to_records(LampOn(e)))

\* The response is an announcement: none of its records has TTL 0, so
\* _handle_response only calls _cache_service, without force_insert.
IsAnnouncement(packet) ==
    /\ packet.data = "query_response"
    /\ \A i \in 1..Len(packet.answers) : packet.answers[i].ttl > 0
    /\ \A i \in 1..Len(packet.additional_records) :
            packet.additional_records[i].ttl > 0

\* A pointer record of the response names (type, domain).
Names(packet, type, domain) ==
    \E i \in 1..Len(packet.answers) :
        /\ packet.answers[i].field = "ptr_record"
        /\ packet.answers[i].name = type
        /\ packet.answers[i].domain_name = domain

\* C19: a received announcement that names a (type, domain) of
\* registered_services leaves the pointer entry and every detail entry of that
\* domain as the owner last wrote them.
C19_AnnouncementKeepsOwned ==
    [][\A e \in Solo :
        (/\ last'.op = "recv"
         /\ last'.engine = e
         /\ IsAnnouncement(last'.packet))
        => \A type \in DOMAIN registered_services[e] :
            \A domain \in Range(registered_services[e][type]) :
                Names(last'.packet, type, domain)
                => /\ Get(Get(ptr_records'[e], type, EmptyMap), domain, <<>>)
                      = Get(Get(ptr_records[e], type, EmptyMap), domain, <<>>)
                   /\ Get(non_ptr_records'[e], domain, <<>>)
                      = Get(non_ptr_records[e], domain, <<>>)]_vars

\* The engine owns the lamp that update_service has switched on, and has
\* received the announcement of another host's lamp of the same domain: the
\* cache holds the owner's records.
C19_OwnedLampAnnouncedByOther ==
    \E e \in Solo :
        /\ last.op = "recv"
        /\ last.engine = e
        /\ last.packet = _broadcast_service(RemoteLamp)[1]
        /\ IsRegistered(Cache(e), LampOn(e))
        /\ LampType \in DOMAIN ptr_records[e]
        /\ DetailRecords(Cache(e), generate_domain_name(LampType, LampName))
                = Tail(to_records(LampOn(e)))

\* The listener of the list that the i-th callback of a step goes to when
\* every event reaches every listener of engine e once, in registration order.
DueListener(e, i) == listeners[e][((i - 1) % Len(listeners[e])) + 1]

\* The first callback of the event that the i-th callback belongs to.
EventStart(e, i) == i - ((i - 1) % Len(listeners[e]))

\* C20: a callback that raises does not stop the notification.  For every
\* event of a step each listener of the list is called exactly once, in
\* registration order, whatever the listeners before it raised; the removal
\* that a raising remove_service reports stays made, and the engine keeps its
\* socket, so that its loops go on.
C20_RaisingListenerIsolated ==
    [][\A e \in Solo :
        (notes' # <<>> /\ last'.engine = e)
        => /\ Len(notes') % Len(listeners[e]) = 0
           /\ \A i \in 1..Len(notes') :
                /\ notes'[i].listener = DueListener(e, i)
                /\ notes'[i].event = notes'[EventStart(e, i)].event
                /\ notes'[i].info = notes'[EventStart(e, i)].info
                /\ notes'[i].raised
                    => /\ generate_domain_name(notes'[i].info.type,
                                               notes'[i].info.name)
                            \notin DOMAIN Get(ptr_records'[e],
                                              notes'[i].info.type, EmptyMap)
                       /\ generate_domain_name(notes'[i].info.type,
                                               notes'[i].info.name)
                            \notin DOMAIN non_ptr_records'[e]
           /\ sock'[e] = sock[e]]_vars

\* The first listener's remove_service has raised and the second listener has
\* been told of the same removal after it.
C20_SecondToldAfterRaise ==
    /\ Len(notes) >= 2
    /\ notes[1].raised
    /\ notes[1].listener = "L1"
    /\ notes[2].listener = "L2"
    /\ ~notes[2].raised
    /\ notes[2].event = "remove_service"
    /\ notes[2].info = notes[1].info
    /\ sock[notes[1].engine]

\* The callbacks of the step that the engine made on its browser and whose
\* service type the browser is subscribed to, by name or by the meta-type.
DueToDelegate(e) ==
    SelectSeq(notes', LAMBDA n :
        /\ n.listener = "B"
        /\ \/ n.info.type \in service_types[e]
           \/ SERVICE_DISCOVERY_TYPE \in service_types[e])

\* C21: once started, a browser hands a callback of its engine on to its
\* delegate if and only if the type of the event is subscribed or the
\* meta-type is; what it hands on arrives once, as the same kind of callback
\* with the same descriptor.
C21_BrowserForwardsSubscribed ==
    [][\A e \in Solo :
        (started[e] /\ last'.engine = e)
        => /\ Len(delegated') = Len(DueToDelegate(e))
           /\ \A i \in 1..Len(delegated') :
                /\ delegated'[i].event = DueToDelegate(e)[i].event
                /\ delegated'[i].info = DueToDelegate(e)[i].info]_vars

\* A browser subscribed to the meta-type alone has handed on the
\* remove_service of a lamp.
C21_MetaTypePassesLamp ==
    \E e \in Solo :
        /\ started[e]
        /\ service_types[e] = {SERVICE_DISCOVERY_TYPE}
        /\ last.op # "browser_start"
        /\ Len(delegated) = 1
        /\ delegated[1].event = "remove_service"
        /\ delegated[1].info.type = LampType

\* The properties apart from the reserved keys.
Unreserved(properties) ==
    [k \in DOMAIN properties \ {"kind", "category"} |-> properties[k]]

\* C22: from_records(to_records(d)) is a list of one descriptor that has the
\* name, type, port, kind, category, protocol, addresses, ttl and
\* allow_name_change of d, and its properties apart from the reserved keys
\* kind and category.
C22_DescriptorRoundTrip ==
    last.op = "from_records"
    => /\ Len(last.infos) = 1
       /\ last.infos[1].name = last.d.name
       /\ last.infos[1].type = last.d.type
       /\ last.infos[1].port = last.d.port
       /\ last.infos[1].kind = last.d.kind
       /\ last.infos[1].category = last.d.category
       /\ last.infos[1].protocol = last.d.protocol
       /\ last.infos[1].addresses = last.d.addresses
       /\ last.infos[1].ttl = last.d.ttl
       /\ last.infos[1].allow_name_change = last.d.allow_name_change
       /\ Unreserved(last.infos[1].properties) = Unreserved(last.d.properties)

\* _cache_service went past its early return.
Inserted ==
    /\ last.op = "_cache_service"
    /\ ~(last.is_own_service /\ ~last.force_insert)

\* C23: after _cache_service(d) has inserted or updated, whatever the cache
\* held before, _reconstruct_info_from_cache(d.type, domain of d) is a
\* descriptor equal to d, and the details of the domain are exactly d's
\* records.
C23_ReconstructGivesInserted ==
    Inserted
    => /\ Len(last.reconstructed) = 1
       /\ [last.reconstructed[1] EXCEPT !.properties = Unreserved(@)]
            = [last.info EXCEPT !.properties = Unreserved(@)]
       /\ DetailRecords(Cache(last.engine),
                        generate_domain_name(last.info.type, last.info.name))
            = Tail(to_records(last.info))

\* The positions of the addresses whose peer takes the connection.
Accepting(outcomes) ==
    {i \in DOMAIN outcomes : outcomes[i].connect = "connected"}

IsPrefix(s, t) == Len(s) <= Len(t) /\ s = SubSeq(t, 1, Len(s))

\* C24: send_request contacts the addresses in the order given, goes on to
\* the next after a refused or timed out connection, returns the unframed
\* reply of the first address that takes the connection and contacts none
\* after it, and raises ConnectionError exactly when no address takes the
\* connection.
C24_FirstAcceptingAddressAnswers ==
    last.op = "send_request"
    => LET ips == last.ips
           outcomes == last.outcomes
           contacted == last.out.contacted
           result == last.out.result
       IN  /\ IsPrefix(contacted, ips)
           /\ \A i \in 1..Len(contacted) :
                 outcomes[i].connect
                     \in {"ConnectionRefusedError", "TimeoutError"}
                 /\ i < Len(ips)
                 => i + 1 <= Len(contacted)
           /\ \A i \in Accepting(outcomes) :
                 (\A j \in Accepting(outcomes) : i <= j)
                 => /\ Len(contacted) = i
                    /\ result.kind = "return"
                    /\ IsPrefix(prepare_protobuf_request(result.data),
                                outcomes[i].data)
           /\ (result = [kind |-> "raise", error |-> "ConnectionError"])
                <=> Accepting(outcomes) = {}

\* The step ends a pass of the cleanup loop of engine e.
PassEnds(e) == last'.op = "cleanup" /\ last'.engine = e

\* C25: a pass of the cleanup loop takes no entry out of the cache, and tells
\* no listener remove_service, for a domain that is in registered_services
\* when the pass removes, whatever happened while the pass awaited its
\* health checks.
C25_CleanupSparesOwned ==
    [][\A e \in Engines :
        PassEnds(e)
        => \A t \in DOMAIN registered_services[e] :
            \A i \in 1..Len(registered_services[e][t]) :
              LET d == registered_services[e][t][i]
              IN  /\ (t \in DOMAIN ptr_records[e]
                      /\ d \in DOMAIN ptr_records[e][t])
                     => (t \in DOMAIN ptr_records'[e]
                         /\ d \in DOMAIN ptr_records'[e][t])
                  /\ d \in DOMAIN non_ptr_records[e]
                     => d \in DOMAIN non_ptr_records'[e]
                  /\ \A n \in 1..Len(notes') :
                        ~(/\ notes'[n].event = "remove_service"
                          /\ notes'[n].info.type = t
                          /\ generate_domain_name(notes'[n].info.type,
                                                  notes'[n].info.name) = d)
    ]_vars

\* The (type, domain) of the pointers of engine e that it does not own and
\* that are expired, or are not.
RemotePointers(e, is_expired) ==
    {p \in [type : DOMAIN ptr_records[e],
            domain : UNION {DOMAIN ptr_records[e][u] :
                              u \in DOMAIN ptr_records[e]}] :
        /\ p.domain \in DOMAIN ptr_records[e][p.type]
        /\ p.domain \notin Range(Get(registered_services[e], p.type, <<>>))
        /\ expired(ptr_records[e][p.type][p.domain]) = is_expired}

\* The calls of remove_service with this descriptor on this listener.
RemoveCalls(ns, listener, info) ==
    {n \in 1..Len(ns) : /\ ns[n].listener = listener
                        /\ ns[n].event = "remove_service"
                        /\ ns[n].info = info}

\* C26: a pass of the cleanup loop collects every remote pointer, the
\* expired ones to be removed and the others to be probed; every remote
\* (type, domain) that was expired or whose probe failed is out of both
\* ptr_records and non_ptr_records when the pass ends, and every listener is
\* called remove_service exactly once with the descriptor the cache held for
\* it before the removal.  An entry that a goodbye took out of the cache while
\* the probes were awaited has nothing left to remove or to report.
C26_PassRemovesExpiredAndDown ==
    [][\A e \in Engines :
        /\ (cleaning[e].pc = "idle" /\ cleaning'[e].pc = "checking")
           => /\ RemotePointers(e, TRUE)
                    = Range(cleaning'[e].expired_services)
              /\ RemotePointers(e, FALSE)
                    = {[type |-> p.type, domain |-> p.domain] :
                         p \in Range(cleaning'[e].services_to_check)}
        /\ (PassEnds(e) /\ cleaning[e].pc = "idle")
           => RemotePointers(e, TRUE) = Range(last'.expired)
        /\ PassEnds(e)
           => \A p \in Range(last'.expired \o last'.unresponsive) :
                LET before == _reconstruct_info_from_cache(e, Cache(e),
                                                           p.type, p.domain)
                IN  p.domain \notin Range(Get(registered_services[e],
                                              p.type, <<>>))
                    => /\ ~(/\ p.type \in DOMAIN ptr_records'[e]
                            /\ p.domain \in DOMAIN ptr_records'[e][p.type])
                       /\ p.domain \notin DOMAIN non_ptr_records'[e]
                       /\ before # <<>>
                          => \A i \in 1..Len(listeners[e]) :
                               Cardinality(RemoveCalls(notes', listeners[e][i],
                                                       before[1])) = 1
    ]_vars

\* A pass has removed an expired service and one that did not answer, and
\* told both listeners of each.
C26_ExpiredAndDownRemoved ==
    /\ last.op = "cleanup"
    /\ last.expired # <<>>
    /\ last.unresponsive # <<>>
    /\ Len(notes) = 4

\* Engine e handles a received query in this step.
HandlesQuery(e) ==
    /\ last'.op = "recv"
    /\ last'.engine = e
    /\ last'.packet.data = "query_request"

\* C27: a query none of whose questions names the meta-type or a service
\* type under which the engine owns a domain gets no response, whatever the
\* cache holds and whatever register_service call is under way or has
\* failed.
C27_NoAnswerWithoutOwnedDomain ==
    [][\A e \in Engines :
        (/\ HandlesQuery(e)
         /\ \A i \in 1..Len(last'.packet.questions) :
              LET name == last'.packet.questions[i].name
              IN  /\ name # SERVICE_DISCOVERY_TYPE
                  /\ Get(registered_services[e], name, <<>>) = <<>>)
        => sent' = <<>>
    ]_vars

\* C28: in every response the query handler sends, each pointer among the
\* answers has an address, a service-endpoint and a text record of its domain
\* among the additional records.
C28_AnswersComeWithDetails ==
    [][\A e \in Engines :
        HandlesQuery(e)
        => \A n \in 1..Len(sent') :
            LET response == sent'[n].packet
            IN  \A i \in 1..Len(response.answers) :
                  response.answers[i].field = "ptr_record"
                  => \A f \in {"a_record", "srv_record", "txt_record"} :
                       \E j \in 1..Len(response.additional_records) :
                         /\ response.additional_records[j].field = f
                         /\ response.additional_records[j].name
                              = response.answers[i].domain_name
    ]_vars

\* C29: between the steps of an engine, every domain with a row in
\* non_ptr_records has an entry in ptr_records under some service type, and
\* no service type of ptr_records has an empty map of domains.
C29_DetailsHavePointer ==
    \A e \in Engines :
        /\ \A d \in DOMAIN non_ptr_records[e] :
              \E t \in DOMAIN ptr_records[e] : d \in DOMAIN ptr_records[e][t]
        /\ \A t \in DOMAIN ptr_records[e] : DOMAIN ptr_records[e][t] # {}

\* A goodbye has taken one service out of a cache that holds another.
C29_RemovedBesideAnother ==
    /\ last.op = "recv"
    /\ last.packet.data = "query_response"
    /\ \E i \in 1..Len(notes) : notes[i].event = "remove_service"
    /\ DOMAIN ptr_records[last.engine] # {}
    /\ DOMAIN non_ptr_records[last.engine] # {}

\* The datagram is shorter than its length prefix, announces more than it
\* holds, does not parse, or holds neither a query nor a response.
Malformed(data) ==
    \/ Len(data) < LengthPrefixBytes
    \/ from_bytes(SubSeq(data, 1, LengthPrefixBytes))
            > Len(data) - LengthPrefixBytes
    \/ LET message_length == from_bytes(SubSeq(data, 1, LengthPrefixBytes))
           parsed == ParseFromString(SubSeq(data, LengthPrefixBytes + 1,
                                     LengthPrefixBytes + message_length))
       IN  \/ parsed.kind = "raise"
           \/ parsed.packet.data \notin {"query_request", "query_response"}

\* C30: a received datagram that is too short, announces more than it holds,
\* does not parse or holds neither a query nor a response leaves
\* registered_services, ptr_records and non_ptr_records as they were, makes
\* no callback and sends nothing, and the receive loop of the engine is
\* still running after it.
C30_MalformedDatagramIgnored ==
    [][\A e \in Engines :
        (last'.op = "datagram" /\ last'.engine = e /\ Malformed(last'.data))
        => /\ registered_services'[e] = registered_services[e]
           /\ ptr_records'[e] = ptr_records[e]
           /\ non_ptr_records'[e] = non_ptr_records[e]
           /\ notes' = <<>>
           /\ sent' = <<>>
           /\ inbox' = inbox
           /\ sock'[e]
    ]_vars

\* The datagram that followed a malformed one has been handled: the
\* listeners were told of its service.
C30_HandledAfterMalformed ==
    /\ last.op = "datagram"
    /\ ~Malformed(last.data)
    /\ last.after_undispatched
    /\ notes # <<>>

\* The datagram is a response of engine e whose answers point at the domain.
Announces(data, domain_name) ==
    /\ data.packet.data = "query_response"
    /\ \E i \in 1..Len(data.packet.answers) :
          /\ data.packet.answers[i].field = "ptr_record"
          /\ data.packet.answers[i].domain_name = domain_name

\* C31: when the task of a register_service call for a name the host does not
\* own is cancelled in its initial delay or in a sleep of the tiebreaker, the
\* candidate domain is not in registered_services, the cache holds no entry
\* of the call's descriptor for it, and the engine has sent no announcement
\* of it.
C31_CancelledCallClaimsNothing ==
    [][\A e \in Engines :
        (last'.op = "cancel" /\ last'.engine = e)
        => LET info == last'.info
               d == generate_domain_name(info.type, info.name)
           IN  /\ d \notin Range(Get(registered_services'[e], info.type, <<>>))
               /\ DetailRecords(Cache(e), d) # Tail(to_records(info))
               /\ ptr_records'[e] = ptr_records[e]
               /\ non_ptr_records'[e] = non_ptr_records[e]
               /\ \A i \in 1..Len(emitted'[e]) : ~Announces(emitted'[e][i], d)
    ]_vars

\* A call has been cancelled in a sleep of its tiebreaker, after a rename,
\* while the engine owns another name.
C31_CancelledAfterRename ==
    /\ last.op = "cancel"
    /\ last.at = "probe"
    /\ call[last.engine].renames > 0
    /\ Owned(last.engine) # <<>>

\* The positions of the addresses that are not excluded and whose host takes
\* the connection.
Reachable(info, outcomes) ==
    {i \in 1..Len(info.addresses) :
        /\ ~StartsWithExcluded(info.addresses[i])
        /\ outcomes[i] = "connected"}

\* C32: _check_service_alive gives false for a descriptor without addresses
\* or with port 0; otherwise true when the protocol is not TCP; otherwise
\* true exactly when an address that is not excluded takes a connection, the
\* addresses that are not excluded being tried in their order up to the first
\* that does.
C32_AliveIffReachable ==
    last.op = "_check_service_alive"
    => LET info == last.info
           outcomes == last.outcomes
           tried == SelectSeq([i \in 1..Len(info.addresses) |-> i],
                        LAMBDA i :
                            /\ ~StartsWithExcluded(info.addresses[i])
                            /\ \A j \in Reachable(info, outcomes) : i <= j)
       IN  IF info.addresses = <<>> \/ info.port = 0
           THEN last.out = [alive |-> FALSE, contacted |-> <<>>]
           ELSE IF info.protocol # TCP_PROTOCOL
           THEN last.out = [alive |-> TRUE, contacted |-> <<>>]
           ELSE /\ last.out.alive <=> Reachable(info, outcomes) # {}
                /\ last.out.contacted
                     = [k \in 1..Len(tried) |-> info.addresses[tried[k]]]

\* A TCP descriptor whose only listening address is excluded has been
\* reported as not alive, after its other address was tried.
C32_ExcludedListenerNotAlive ==
    /\ last.op = "_check_service_alive"
    /\ last.info.protocol = TCP_PROTOCOL
    /\ last.info.port # 0
    /\ \E i \in 1..Len(last.info.addresses) :
          /\ StartsWithExcluded(last.info.addresses[i])
          /\ last.outcomes[i] = "connected"
    /\ Len(last.out.contacted) = 1
    /\ ~last.out.alive

\* C33: a rename inside register_service gives "<base>-N" with N >= 2, where
\* <base> is the name before the rename without a trailing "-N", and the
\* whole name when it has no such suffix, as "my-lamp" becoming "my-lamp-2".
C33_RenameKeepsBase ==
    [][\A e \in Engines :
        (/\ call[e].pc \in {"delay", "probe"}
         /\ call'[e].info.name # call[e].info.name)
        => \E k \in FirstInstanceNum..(FirstInstanceNum + MaxOwned + MaxAttempts) :
              call'[e].info.name
                = StrippedBase(call[e].info.name) \o <<Hyphen, ToString(k)>>]_vars

\* C34: a pass of the cleanup loop takes a remote entry out of the cache, or
\* tells remove_service for it, only if the entry is expired when the pass
\* removes or its probe failed: an entry refreshed by a response while the
\* probes were awaited stays.
C34_RefreshedEntryKept ==
    [][\A e \in Engines :
        PassEnds(e)
        => \A p \in RemotePointers(e, FALSE) :
            [type |-> p.type, domain |-> p.domain] \notin Range(last'.unresponsive)
            => /\ p.type \in DOMAIN ptr_records'[e]
               /\ p.domain \in DOMAIN ptr_records'[e][p.type]
               /\ \A n \in 1..Len(notes') :
                     ~(/\ notes'[n].event = "remove_service"
                       /\ notes'[n].info.type = p.type
                       /\ generate_domain_name(notes'[n].info.type,
                                               notes'[n].info.name) = p.domain)
    ]_vars

\* C35: no listener is told remove_service for a remote (type, domain) twice
\* with no add_service for it in between, whatever the order of goodbyes,
\* cleanup passes, goodbyes handled while a pass awaits its probes, and
\* announcements; and remove_service is told only for a (type, domain) that
\* the cache holds when the step begins or that the step added before.
C35_RemoveToldOnce ==
    [][\A n \in 1..Len(notes') :
        LET e == notes'[n].engine
            t == notes'[n].info.type
            d == generate_domain_name(t, notes'[n].info.name)
            before == SubSeq(notes', 1, n - 1)
        IN  (/\ notes'[n].event = "remove_service"
             /\ d \notin Range(Get(registered_services[e], t, <<>>)))
            => /\ <<notes'[n].listener, t, d>>
                    \notin RemovedAfter(removed[e], before)
               /\ \/ t \in DOMAIN ptr_records[e] /\ d \in DOMAIN ptr_records[e][t]
                  \/ \E i \in 1..(n - 1) :
                        /\ before[i].event = "add_service"
                        /\ before[i].info.type = t
                        /\ generate_domain_name(t, before[i].info.name) = d
    ]_vars

\* A cleanup pass has ended that had collected a remote service which a
\* goodbye took away while the probes were awaited: the listeners, told by
\* the goodbye, were not told again.
C35_GoodbyeDuringPass ==
    /\ last.op = "cleanup"
    /\ \E p \in Range(last.expired \o last.unresponsive) :
          /\ p.domain \notin Range(Get(registered_services["E1"], p.type, <<>>))
          /\ <<"L1", p.type, p.domain>> \in removed["E1"]
          /\ \A n \in 1..Len(notes) :
                generate_domain_name(notes[n].info.type, notes[n].info.name)
                    # p.domain

\* C36: when a browser starts, its delegate is told add_service for every
\* cached service that is not expired and whose later update_service and
\* remove_service the browser hands on, whatever the subscribed set, the set
\* of the meta-type alone included; so that the delegate hears of no update
\* or removal of a service it was not told to add.
C36_ReplayCoversForwarded ==
    [][\A e \in Solo :
        (last'.op = "browser_start" /\ last'.engine = e /\ ~started[e])
        => \A t \in DOMAIN ptr_records[e] :
            \A d \in DOMAIN ptr_records[e][t] :
              LET cached == _reconstruct_info_from_cache(e, Cache(e), t, d)
              IN  (/\ ~expired(ptr_records[e][t][d])
                   /\ cached # <<>>
                   /\ BrowserCallback(service_types[e], "remove_service",
                                      cached[1]) # <<>>)
                  => \E i \in 1..Len(delegated') :
                        /\ delegated'[i].event = "add_service"
                        /\ delegated'[i].info = cached[1]
    ]_vars

\* C37: a register_service that ends well, the one called with a descriptor
\* object that unregister_service was given before included, announces the
\* descriptor with a positive TTL on every record and caches a pointer with a
\* positive TTL that is not expired.
C37_RegisteredAgainIsLive ==
    [][\A e \in Solo :
        (call[e].pc \in {"delay", "probe"} /\ call'[e].pc = "done")
        => LET info == call'[e].info
               d == generate_domain_name(info.type, info.name)
           IN  /\ \A i \in 1..Len(sent') :
                    sent'[i].packet.data = "query_response"
                    => \A rec \in Range(sent'[i].packet.answers
                                        \o sent'[i].packet.additional_records) :
                          rec.ttl > 0
               /\ info.type \in DOMAIN ptr_records'[e]
               /\ d \in DOMAIN ptr_records'[e][info.type]
               /\ ptr_records'[e][info.type][d].record.ttl > 0
               /\ ~expired(ptr_records'[e][info.type][d])
    ]_vars

\* C38: a received response that names a (type, domain) of
\* registered_services makes the engine call no listener for that domain,
\* neither add_service nor update_service.
C38_OwnedAnnouncementTellsNobody ==
    [][\A e \in Solo :
        (/\ last'.op = "recv"
         /\ last'.engine = e
         /\ IsAnnouncement(last'.packet))
        => \A type \in DOMAIN registered_services[e] :
            \A domain \in Range(registered_services[e][type]) :
                Names(last'.packet, type, domain)
                => \A n \in 1..Len(notes') :
                     ~(/\ notes'[n].info.type = type
                       /\ generate_domain_name(type, notes'[n].info.name)
                            = domain)]_vars

\* The browser of engine E2 has just started its engine while E1 owns the
\* descriptor and holds its pointer, and the browser is subscribed to the
\* type of the descriptor or to the meta-type.
JoinsAfter(info) ==
    /\ last.op = "browser_start"
    /\ last.engine = "E2"
    /\ ~last.again
    /\ IsRegistered(Cache("E1"), info)
    /\ InPtr(Cache("E1"), info.type, generate_domain_name(info.type, info.name))
    /\ \/ info.type \in service_types["E2"]
       \/ SERVICE_DISCOVERY_TYPE \in service_types["E2"]

\* The delegate of E2's browser is told add_service for the descriptor, and
\* E2's cache gives a descriptor of its port, addresses and properties.
Discovers(info) ==
    LET d == generate_domain_name(info.type, info.name)
        cached == _reconstruct_info_from_cache("E2", Cache("E2"), info.type, d)
    IN  /\ \E i \in 1..Len(delegated) :
              /\ delegated[i].event = "add_service"
              /\ delegated[i].info.type = info.type
              /\ delegated[i].info.name = info.name
        /\ cached # <<>>
        /\ cached[1].port = info.port
        /\ cached[1].addresses = info.addresses
        /\ Unreserved(cached[1].properties) = Unreserved(info.properties)

\* C39: when engine E1 owns a service and engine E2 joins afterwards, through
\* a browser subscribed to the type of the service or to the meta-type, then,
\* the query of E2 and the response of E1 being delivered, the delegate of the
\* browser is told add_service for E1's domain and E2's cache gives a
\* descriptor with E1's port, addresses and properties (the reserved keys kind
\* and category aside).
C39_LateJoinerDiscovers ==
    \A info \in LocalInfos("E1") : JoinsAfter(info) ~> Discovers(info)

\* A browser subscribed to the meta-type alone has been told of E1's lamp.
C39_MetaBrowserToldOfLamp ==
    /\ service_types["E2"] = {SERVICE_DISCOVERY_TYPE}
    /\ started["E2"]
    /\ last.op = "recv"
    /\ last.engine = "E2"
    /\ \E info \in LocalInfos("E1") :
          IsRegistered(Cache("E1"), info) /\ Discovers(info)

\* C40: engine E1 owning the lamp's name, a register_service of E2 for the
\* same name and type, every datagram being handled before E2 goes on from a
\* sleep, ends with a renamed descriptor that E2 owns when allow_name_change
\* is true, and otherwise by raising NonUniqueName; E2 never owns E1's domain.
C40_SecondComerYields ==
    [][\A e \in Engines \ Solo :
        (call[e].pc \in {"delay", "probe"} /\ call'[e].pc \in {"done", "failed"})
        => LET x == generate_domain_name(call[e].info.type, call[e].requested)
           IN  /\ ~OwnedBy(e, call[e].info.type, x)'
               /\ IF call[e].info.allow_name_change
                  THEN /\ call'[e].pc = "done"
                       /\ call'[e].info.name # call[e].requested
                  ELSE /\ call'[e].pc = "failed"
                       /\ call'[e].error = "NonUniqueNameException"
    ]_vars

====
